---------------------------- MODULE Spec2Model ----------------------------
(***************************************************************************)
(* Model of the tweet retrieval service: the limit validator, the mock     *)
(* (synthetic) backend, the X API (upstream) backend with its response     *)
(* normalisation, the service factory and the two HTTP routes.             *)
(*                                                                         *)
(* A Python str is a sequence of one-character strings, so that lstrip,    *)
(* lower, title, split and startswith are computed character by            *)
(* character.  Python's None is the model value None.                      *)
(***************************************************************************)
EXTENDS Integers, Sequences, FiniteSets, TLC

VARIABLES
  env,      \* os.environ['TWITTER_BEARER_TOKEN'] (None when unset)
  rng,      \* state of the process-wide generator of the random module
  mock,     \* TRUE once a TwitterMockService instance exists
  api,      \* the TwitterAPIService instance (its bearer_token), or None
  last,     \* the most recent call: its arguments and its outcome
  inflight, \* per accepted request, how far its handler has got
  kept      \* a response that a client keeps to compare later ones with

vars == <<env, rng, mock, api, last, inflight, kept>>

\* Python's None, comparable with every str of the model and equal to none
None == <<"None">>

\* bool(s) of an optional str
Truthy(s) == s # None /\ s # <<>>

\* an optional value: <<>> when absent, <<v>> when present
Absent == <<>>
Present(v) == <<v>>
Has(m) == m # <<>>
Get(m, default) == IF m = <<>> THEN default ELSE m[1]

----------------------------------------------------------------------------
(* str helpers                                                              *)

UPPER == <<"A","B","C","D","E","F","G","H","I","J","K","L","M",
           "N","O","P","Q","R","S","T","U","V","W","X","Y","Z">>

LOWER == <<"a","b","c","d","e","f","g","h","i","j","k","l","m",
           "n","o","p","q","r","s","t","u","v","w","x","y","z">>

DIGITS == <<"0","1","2","3","4","5","6","7","8","9">>

WHITESPACE == {" ", "\n", "\t"}

\* the lower-case letter of each upper-case letter, and the converse
ToLower == [c \in {UPPER[i] : i \in DOMAIN UPPER} |->
              LOWER[CHOOSE i \in DOMAIN UPPER : UPPER[i] = c]]

ToUpper == [c \in {LOWER[i] : i \in DOMAIN LOWER} |->
              UPPER[CHOOSE i \in DOMAIN LOWER : LOWER[i] = c]]

IsUpper(c) == c \in DOMAIN ToLower

IsLower(c) == c \in DOMAIN ToUpper

IsDigit(c) == c \in {DIGITS[i] : i \in DOMAIN DIGITS}

\* str.lower() on one character
LowerChar(c) == IF IsUpper(c) THEN ToLower[c] ELSE c

\* str.upper() on one character
UpperChar(c) == IF IsLower(c) THEN ToUpper[c] ELSE c

\* s.lower()
Lower(s) == [i \in DOMAIN s |-> LowerChar(s[i])]

\* s.title(): a cased character is upper-cased when it follows an uncased
\* character (or starts the string) and lower-cased otherwise
Title(s) ==
  [i \in DOMAIN s |->
     IF i > 1 /\ (IsUpper(s[i-1]) \/ IsLower(s[i-1]))
     THEN LowerChar(s[i])
     ELSE UpperChar(s[i])]

\* s.removeprefix(ch) in place of lstrip: only the first character goes
LStripOne(s, ch) == IF s # <<>> /\ Head(s) = ch THEN Tail(s) ELSE s

\* s.lstrip(ch): every leading occurrence of ch is removed
RECURSIVE LStrip(_, _)
LStrip(s, ch) ==
  IF s # <<>> /\ Head(s) = ch THEN LStrip(Tail(s), ch) ELSE s

\* s.startswith(ch)
StartsWith(s, ch) == s # <<>> /\ Head(s) = ch

\* s.split(): the maximal runs of non-whitespace characters, in order
Split(s) ==
  LET starts == {i \in DOMAIN s :
                   s[i] \notin WHITESPACE /\ (i = 1 \/ s[i-1] \in WHITESPACE)}
      Start(n) == CHOOSE i \in starts : Cardinality({j \in starts : j < i}) = n - 1
      End(i)   == CHOOSE j \in i .. Len(s) :
                    /\ \A k \in i .. j : s[k] \notin WHITESPACE
                    /\ j = Len(s) \/ s[j+1] \in WHITESPACE
  IN  [n \in 1 .. Cardinality(starts) |-> SubSeq(s, Start(n), End(Start(n)))]

\* x in xs
In(x, xs) == \E i \in DOMAIN xs : xs[i] = x

----------------------------------------------------------------------------
(* app/models/tweet.py                                                      *)

Account(fullname, href, id) == [fullname |-> fullname, href |-> href, id |-> id]

Tweet(account, date, text, replies, retweets, likes, hashtags) ==
  [account |-> account, date |-> date, text |-> text, replies |-> replies,
   retweets |-> retweets, likes |-> likes, hashtags |-> hashtags]

----------------------------------------------------------------------------
(* config.py                                                                *)

DEFAULT_TWEET_LIMIT == 30
MAX_TWEET_LIMIT == 100
MIN_TWEET_LIMIT == 1

----------------------------------------------------------------------------
(* app/services/twitter_mock_service.py                                     *)

SAMPLE_ACCOUNTS ==
  <<
    \* {'fullname': 'Raymond Hettinger', 'href': '/raymondh', 'id': 14159138}
    [fullname |-> <<"R","a","y","m","o","n","d"," ","H","e","t","t","i","n","g","e","r">>,
     href |-> <<"/","r","a","y","m","o","n","d","h">>,
     id |-> 14159138],
    \* {'fullname': 'Guido van Rossum', 'href': '/gvanrossum', 'id': 10945672}
    [fullname |-> <<"G","u","i","d","o"," ","v","a","n"," ","R","o","s","s","u","m">>,
     href |-> <<"/","g","v","a","n","r","o","s","s","u","m">>,
     id |-> 10945672],
    \* {'fullname': 'Python Software', 'href': '/ThePSF', 'id': 63873759}
    [fullname |-> <<"P","y","t","h","o","n"," ","S","o","f","t","w","a","r","e">>,
     href |-> <<"/","T","h","e","P","S","F">>,
     id |-> 63873759],
    \* {'fullname': 'Real Python', 'href': '/realpython', 'id': 752486881}
    [fullname |-> <<"R","e","a","l"," ","P","y","t","h","o","n">>,
     href |-> <<"/","r","e","a","l","p","y","t","h","o","n">>,
     id |-> 752486881],
    \* {'fullname': 'Python Weekly', 'href': '/PythonWeekly', 'id': 315766685}
    [fullname |-> <<"P","y","t","h","o","n"," ","W","e","e","k","l","y">>,
     href |-> <<"/","P","y","t","h","o","n","W","e","e","k","l","y">>,
     id |-> 315766685],
    \* {'fullname': 'Twitter', 'href': '/Twitter', 'id': 783214}
    [fullname |-> <<"T","w","i","t","t","e","r">>,
     href |-> <<"/","T","w","i","t","t","e","r">>,
     id |-> 783214],
    \* {'fullname': 'Tech News', 'href': '/technews', 'id': 123456789}
    [fullname |-> <<"T","e","c","h"," ","N","e","w","s">>,
     href |-> <<"/","t","e","c","h","n","e","w","s">>,
     id |-> 123456789],
    \* {'fullname': 'Code Academy', 'href': '/codeacademy', 'id': 987654321}
    [fullname |-> <<"C","o","d","e"," ","A","c","a","d","e","m","y">>,
     href |-> <<"/","c","o","d","e","a","c","a","d","e","m","y">>,
     id |-> 987654321]
  >>

SAMPLE_TEXTS ==
  <<
    \* Just released a new #Python library for data processing! Check it out: github.com/example
    <<"J","u","s","t"," ","r","e","l","e","a","s","e","d"," ","a"," ","n","e","w"," ","#",
      "P","y","t","h","o","n"," ","l","i","b","r","a","r","y"," ","f","o","r"," ","d","a","t",
      "a"," ","p","r","o","c","e","s","s","i","n","g","!"," ","C","h","e","c","k"," ","i","t",
      " ","o","u","t",":"," ","g","i","t","h","u","b",".","c","o","m","/","e","x","a","m","p",
      "l","e">>,
    \* Historically, bash filename pattern matching was known as 'globbing'. Hence, the #python module called 'glob'.
    <<"H","i","s","t","o","r","i","c","a","l","l","y",","," ","b","a","s","h"," ","f","i",
      "l","e","n","a","m","e"," ","p","a","t","t","e","r","n"," ","m","a","t","c","h","i","n",
      "g"," ","w","a","s"," ","k","n","o","w","n"," ","a","s"," ","\"","g","l","o","b","b","i",
      "n","g","\"","."," ","H","e","n","c","e",","," ","t","h","e"," ","#","p","y","t","h","o",
      "n"," ","m","o","d","u","l","e"," ","c","a","l","l","e","d"," ","\"","g","l","o","b",
      "\"",".">>,
    \* Excited to announce our new feature! #technology #innovation
    <<"E","x","c","i","t","e","d"," ","t","o"," ","a","n","n","o","u","n","c","e"," ","o",
      "u","r"," ","n","e","w"," ","f","e","a","t","u","r","e","!"," ","#","t","e","c","h","n",
      "o","l","o","g","y"," ","#","i","n","n","o","v","a","t","i","o","n">>,
    \* Working on some amazing #Python projects today. The productivity is real!
    <<"W","o","r","k","i","n","g"," ","o","n"," ","s","o","m","e"," ","a","m","a","z","i",
      "n","g"," ","#","P","y","t","h","o","n"," ","p","r","o","j","e","c","t","s"," ","t","o",
      "d","a","y","."," ","T","h","e"," ","p","r","o","d","u","c","t","i","v","i","t","y"," ",
      "i","s"," ","r","e","a","l","!">>,
    \* Powerful voices. Inspiring women. #InternationalWomensDay
    <<"P","o","w","e","r","f","u","l"," ","v","o","i","c","e","s","."," ","I","n","s","p",
      "i","r","i","n","g"," ","w","o","m","e","n","."," ","#","I","n","t","e","r","n","a","t",
      "i","o","n","a","l","W","o","m","e","n","s","D","a","y">>,
    \* New blog post about #programming best practices. Link in bio!
    <<"N","e","w"," ","b","l","o","g"," ","p","o","s","t"," ","a","b","o","u","t"," ","#",
      "p","r","o","g","r","a","m","m","i","n","g"," ","b","e","s","t"," ","p","r","a","c","t",
      "i","c","e","s","."," ","L","i","n","k"," ","i","n"," ","b","i","o","!">>,
    \* Just deployed our latest microservice using #Python 3.12. Performance improvements are incredible!
    <<"J","u","s","t"," ","d","e","p","l","o","y","e","d"," ","o","u","r"," ","l","a","t",
      "e","s","t"," ","m","i","c","r","o","s","e","r","v","i","c","e"," ","u","s","i","n","g",
      " ","#","P","y","t","h","o","n"," ","3",".","1","2","."," ","P","e","r","f","o","r","m",
      "a","n","c","e"," ","i","m","p","r","o","v","e","m","e","n","t","s"," ","a","r","e"," ",
      "i","n","c","r","e","d","i","b","l","e","!">>,
    \* Anyone else loving the new features in Python 3.13? #python #coding
    <<"A","n","y","o","n","e"," ","e","l","s","e"," ","l","o","v","i","n","g"," ","t","h",
      "e"," ","n","e","w"," ","f","e","a","t","u","r","e","s"," ","i","n"," ","P","y","t","h",
      "o","n"," ","3",".","1","3","?"," ","#","p","y","t","h","o","n"," ","#","c","o","d","i",
      "n","g">>,
    \* Great conference talk today about #softwaredevelopment and #agile methodologies
    <<"G","r","e","a","t"," ","c","o","n","f","e","r","e","n","c","e"," ","t","a","l","k",
      " ","t","o","d","a","y"," ","a","b","o","u","t"," ","#","s","o","f","t","w","a","r","e",
      "d","e","v","e","l","o","p","m","e","n","t"," ","a","n","d"," ","#","a","g","i","l","e",
      " ","m","e","t","h","o","d","o","l","o","g","i","e","s">>,
    \* Remember: premature optimization is the root of all evil. #programming #python
    <<"R","e","m","e","m","b","e","r",":"," ","p","r","e","m","a","t","u","r","e"," ","o",
      "p","t","i","m","i","z","a","t","i","o","n"," ","i","s"," ","t","h","e"," ","r","o","o",
      "t"," ","o","f"," ","a","l","l"," ","e","v","i","l","."," ","#","p","r","o","g","r","a",
      "m","m","i","n","g"," ","#","p","y","t","h","o","n">>
  >>

\* The random module keeps one generator for the whole process.  It is
\* modelled as a multiplicative congruential generator over
\* 1 .. RNG_MODULUS - 1: each draw reads the state and advances it.
RNG_MODULUS == 11
RNG_MULTIPLIER == 2

\* random.seed(a)
\* a seed call that acts on a generator never seeded before and leaves a
\* seeded one where it is, as for a service that is built at the first
\* request and serves the later ones
SeedOnce(a) == IF rng = 0 THEN (a % (RNG_MODULUS - 1)) + 1 ELSE rng

Seed(a) == (a % (RNG_MODULUS - 1)) + 1

\* the state after one draw
Advance(s) == (s * RNG_MULTIPLIER) % RNG_MODULUS

\* RNG_MULTIPLIER ** k modulo RNG_MODULUS
RECURSIVE PowMod(_)
PowMod(k) ==
  IF k = 0 THEN 1
  ELSE LET h == PowMod(k \div 2)
       IN  (((h * h) % RNG_MODULUS) * (IF k % 2 = 1 THEN RNG_MULTIPLIER ELSE 1))
             % RNG_MODULUS

\* the state after k draws
AdvanceBy(s, k) == (s * PowMod(k)) % RNG_MODULUS

\* the value in 0 .. n-1 drawn in state s
RandBelow(s, n) == (s * n) \div RNG_MODULUS

\* random.choice(seq), drawn in state s
Choice(s, seq) == seq[RandBelow(s, Len(seq)) + 1]

\* random.randint(a, b), drawn in state s
RandInt(s, a, b) == a + RandBelow(s, b - a + 1)

\* --- datetime ---------------------------------------------------------
\* A datetime is a number of minutes since 1970-01-01 00:00.

MINUTES_PER_DAY == 1440

MONTH_ABBR ==
  << <<"J","a","n">>, <<"F","e","b">>, <<"M","a","r">>, <<"A","p","r">>,
     <<"M","a","y">>, <<"J","u","n">>, <<"J","u","l">>, <<"A","u","g">>,
     <<"S","e","p">>, <<"O","c","t">>, <<"N","o","v">>, <<"D","e","c">> >>

\* the decimal digits of n >= 0
RECURSIVE Decimal(_)
Decimal(n) ==
  IF n < 10 THEN <<DIGITS[n + 1]>> ELSE Append(Decimal(n \div 10), DIGITS[(n % 10) + 1])

\* the proleptic Gregorian date of day number z (days since 1970-01-01)
CivilFromDays(z) ==
  LET z1  == z + 719468
      era == z1 \div 146097
      doe == z1 - era * 146097
      yoe == (doe - doe \div 1460 + doe \div 36524 - doe \div 146096) \div 365
      doy == doe - (365 * yoe + yoe \div 4 - yoe \div 100)
      mp  == (5 * doy + 2) \div 153
      d   == doy - (153 * mp + 2) \div 5 + 1
      m   == IF mp < 10 THEN mp + 3 ELSE mp - 9
      y   == yoe + era * 400 + (IF m <= 2 THEN 1 ELSE 0)
  IN  [year |-> y, month |-> m, day |-> d]

\* the day number of a proleptic Gregorian date
DaysFromCivil(y, m, d) ==
  LET y1  == IF m <= 2 THEN y - 1 ELSE y
      era == y1 \div 400
      yoe == y1 - era * 400
      mp  == IF m > 2 THEN m - 3 ELSE m + 9
      doy == (153 * mp + 2) \div 5 + d - 1
      doe == yoe * 365 + yoe \div 4 - yoe \div 100 + doy
  IN  era * 146097 + doe - 719468

\* dt.strftime("%-I:%M %p - %-d %b %Y")
Strftime(dt) ==
  LET date   == CivilFromDays(dt \div MINUTES_PER_DAY)
      minute == dt % MINUTES_PER_DAY
      hour   == minute \div 60
      hour12 == IF hour % 12 = 0 THEN 12 ELSE hour % 12
      mm     == minute % 60
  IN  Decimal(hour12) \o <<":">> \o
      (IF mm < 10 THEN <<"0">> ELSE <<>>) \o Decimal(mm) \o
      <<" ">> \o (IF hour < 12 THEN <<"A","M">> ELSE <<"P","M">>) \o
      <<" ","-"," ">> \o Decimal(date.day) \o <<" ">> \o
      MONTH_ABBR[date.month] \o <<" ">> \o Decimal(date.year)

\* TwitterMockService._generate_date: datetime.now() read as `now`,
\* index * 0.5 days earlier.  The iterations of one call read the clock
\* within the same minute, so a call takes one reading for all of them.
GenerateDate(index, now) == Strftime(now - index * (MINUTES_PER_DAY \div 2))

\* base_text.split() of each sample text
SampleWords == [t \in DOMAIN SAMPLE_TEXTS |-> Split(SAMPLE_TEXTS[t])]

\* an outcome of a call: what it returned or raised, and the generator
\* state it left
Returned(posts, s) == [kind |-> "ok", msg |-> "", posts |-> posts, rng |-> s]

Raised(kind, msg, s) == [kind |-> kind, msg |-> msg, posts |-> <<>>, rng |-> s]

IsHashtag(word) == StartsWith(word, "#")

\* [word for word in base_text.split() if word.startswith('#')] of each
\* sample text
SampleTags == [t \in DOMAIN SAMPLE_TEXTS |-> SelectSeq(SampleWords[t], IsHashtag)]

\* [tag[1:].lower() for tag in ...] of each sample text
SampleLowerTags ==
  [t \in DOMAIN SAMPLE_TEXTS |->
     [k \in DOMAIN SampleTags[t] |-> Lower(Tail(SampleTags[t][k]))]]

\* acc['href'].lstrip('/').lower() of each sample account
SampleHandles ==
  [k \in DOMAIN SAMPLE_ACCOUNTS |-> Lower(LStrip(SAMPLE_ACCOUNTS[k].href, "/"))]

\* the loop body without `if hashtag not in existing_hashtags: ...`: the
\* sample text and its own hashtags are returned as they are
MockHashtagTweetUntagged(i, hashtag, s, now) ==
  Tweet(Choice(s, SAMPLE_ACCOUNTS), GenerateDate(i, now),
        SAMPLE_TEXTS[RandBelow(Advance(s), Len(SAMPLE_TEXTS)) + 1],
        RandInt(AdvanceBy(s, 2), 0, 500), RandInt(AdvanceBy(s, 3), 0, 1000),
        RandInt(AdvanceBy(s, 4), 0, 5000),
        SampleTags[RandBelow(Advance(s), Len(SAMPLE_TEXTS)) + 1])

\* the loop body of get_tweets_by_hashtag for index i, drawing from state s
MockHashtagTweet(i, hashtag, s, now) ==
  LET account   == Choice(s, SAMPLE_ACCOUNTS)
      s1        == Advance(s)
      t         == RandBelow(s1, Len(SAMPLE_TEXTS)) + 1
      base_text == SAMPLE_TEXTS[t]
      s2        == Advance(s1)
      existing_hashtags == SampleLowerTags[t]
      missing   == ~In(hashtag, existing_hashtags)
      hashtags  == IF missing THEN <<hashtag>> \o existing_hashtags
                   ELSE existing_hashtags
      text      == IF missing THEN base_text \o <<"\n", "#">> \o hashtag
                   ELSE base_text
      s3        == Advance(s2)
      s4        == Advance(s3)
  IN  Tweet(account, GenerateDate(i, now), text,
            RandInt(s2, 0, 500), RandInt(s3, 0, 1000), RandInt(s4, 0, 5000),
            [k \in DOMAIN hashtags |-> <<"#">> \o hashtags[k]])

\* the loop written as `for i in range(limit - 1)`
MockHashtagLoopOffByOne(limit, hashtag, s, now) ==
  Returned([n \in 1 .. limit - 1 |->
              MockHashtagTweet(n - 1, hashtag, AdvanceBy(s, 5 * (n - 1)), now)],
           IF limit > 1 THEN AdvanceBy(s, 5 * (limit - 1)) ELSE s)

\* for i in range(limit): iteration i starts after the 5 * i draws of the
\* iterations before it
MockHashtagLoop(limit, hashtag, s, now) ==
  Returned([n \in 1 .. limit |->
              MockHashtagTweet(n - 1, hashtag, AdvanceBy(s, 5 * (n - 1)), now)],
           IF limit > 0 THEN AdvanceBy(s, 5 * limit) ELSE s)

\* get_tweets_by_hashtag without `if not hashtag: raise ValueError(...)`
MockTweetsByHashtagUnchecked(hashtag, limit, s, now) ==
  MockHashtagLoop(limit, Lower(LStrip(hashtag, "#")), s, now)

\* TwitterMockService.get_tweets_by_hashtag
MockTweetsByHashtag(hashtag, limit, s, now) ==
  IF hashtag = <<>>
  THEN Raised("ValueError", "Hashtag cannot be empty", s)
  ELSE MockHashtagLoop(limit, Lower(LStrip(hashtag, "#")), s, now)

\* the loop body of get_user_tweets for index i, drawing from state s
MockUserTweet(i, account, s, now) ==
  LET t  == RandBelow(s, Len(SAMPLE_TEXTS)) + 1
      s1 == Advance(s)
      s2 == Advance(s1)
      s3 == Advance(s2)
  IN  Tweet(account, GenerateDate(i, now), SAMPLE_TEXTS[t],
            RandInt(s1, 0, 500), RandInt(s2, 0, 1000), RandInt(s3, 0, 5000),
            SampleTags[t])

\* for i in range(limit): iteration i starts after the 4 * i draws of the
\* iterations before it
MockUserLoop(limit, account, s, now) ==
  Returned([n \in 1 .. limit |->
              MockUserTweet(n - 1, account, AdvanceBy(s, 4 * (n - 1)), now)],
           IF limit > 0 THEN AdvanceBy(s, 4 * limit) ELSE s)

\* the search with `acc['href'].lstrip('/') == username`, without lower()
MatchingAccountCaseSensitive(username) ==
  LET hits == {k \in DOMAIN SAMPLE_ACCOUNTS : Tail(SAMPLE_ACCOUNTS[k].href) = username}
  IN  IF hits = {} THEN 0 ELSE CHOOSE k \in hits : \A j \in hits : k <= j

\* next(acc for acc in SAMPLE_ACCOUNTS if acc['href'].lstrip('/').lower()
\*      == username.lower()), as the index of the first match or 0
MatchingAccount(username) ==
  LET hits == {k \in DOMAIN SAMPLE_ACCOUNTS : SampleHandles[k] = Lower(username)}
  IN  IF hits = {} THEN 0 ELSE CHOOSE k \in hits : \A j \in hits : k <= j

\* TwitterMockService.get_user_tweets
MockUserTweets(username0, limit, s, now) ==
  IF username0 = <<>>
  THEN Raised("ValueError", "Username cannot be empty", s)
  ELSE LET username == LStrip(username0, "@")
           k        == MatchingAccount(username)
           account  == IF k # 0 THEN SAMPLE_ACCOUNTS[k]
                       ELSE Account(Title(username), <<"/">> \o username,
                                    RandInt(s, 1000000, 99999999))
           s1       == IF k # 0 THEN s ELSE Advance(s)
       IN  MockUserLoop(limit, account, s1, now)

\* the loop body of get_tweets_by_hashtag for index i, where its five
\* draws (account, text, replies, retweets, likes) met the generator states
\* d[1] .. d[5]
HashtagTweetDrawn(i, hashtag, d, now) ==
  LET t        == RandBelow(d[2], Len(SAMPLE_TEXTS)) + 1
      missing  == ~In(hashtag, SampleLowerTags[t])
      hashtags == IF missing THEN <<hashtag>> \o SampleLowerTags[t]
                  ELSE SampleLowerTags[t]
      text     == IF missing THEN SAMPLE_TEXTS[t] \o <<"\n", "#">> \o hashtag
                  ELSE SAMPLE_TEXTS[t]
  IN  Tweet(Choice(d[1], SAMPLE_ACCOUNTS), GenerateDate(i, now), text,
            RandInt(d[3], 0, 500), RandInt(d[4], 0, 1000), RandInt(d[5], 0, 5000),
            [k \in DOMAIN hashtags |-> <<"#">> \o hashtags[k]])

\* the loop body of get_user_tweets for index i, where its four draws
\* (text, replies, retweets, likes) met the generator states d[1] .. d[4]
UserTweetDrawn(i, account, d, now) ==
  LET t == RandBelow(d[1], Len(SAMPLE_TEXTS)) + 1
  IN  Tweet(account, GenerateDate(i, now), SAMPLE_TEXTS[t],
            RandInt(d[2], 0, 500), RandInt(d[3], 0, 1000), RandInt(d[4], 0, 5000),
            SampleTags[t])

\* the draws that the account of get_user_tweets takes: one randint for a
\* username that matches no sample account
AccountDraws(username0) ==
  IF MatchingAccount(LStrip(username0, "@")) = 0 THEN 1 ELSE 0

\* the number of draws that an operation with a non-empty key makes
DrawsNeeded(op, key, limit) ==
  IF op = "get_tweets_by_hashtag"
  THEN (IF limit > 0 THEN 5 * limit ELSE 0)
  ELSE AccountDraws(key) + (IF limit > 0 THEN 4 * limit ELSE 0)

\* the tweets list of an operation with a non-empty key whose draws met
\* the generator states ds, in the order of the draws
TweetsDrawn(op, key, limit, ds, now) ==
  IF op = "get_tweets_by_hashtag"
  THEN [n \in 1 .. limit |->
          HashtagTweetDrawn(n - 1, Lower(LStrip(key, "#")),
                            SubSeq(ds, 5 * (n - 1) + 1, 5 * n), now)]
  ELSE LET username == LStrip(key, "@")
           k        == MatchingAccount(username)
           account  == IF k # 0 THEN SAMPLE_ACCOUNTS[k]
                       ELSE Account(Title(username), <<"/">> \o username,
                                    RandInt(ds[1], 1000000, 99999999))
       IN  [n \in 1 .. limit |->
              UserTweetDrawn(n - 1, account,
                             SubSeq(ds, AccountDraws(key) + 4 * (n - 1) + 1,
                                    AccountDraws(key) + 4 * n), now)]

----------------------------------------------------------------------------
(* int(str)                                                                 *)

RECURSIVE LStripWs(_)
LStripWs(s) == IF s # <<>> /\ Head(s) \in WHITESPACE THEN LStripWs(Tail(s)) ELSE s

RECURSIVE RStripWs(_)
RStripWs(s) ==
  IF s # <<>> /\ s[Len(s)] \in WHITESPACE THEN RStripWs(SubSeq(s, 1, Len(s) - 1)) ELSE s

DigitValue(c) == (CHOOSE i \in DOMAIN DIGITS : DIGITS[i] = c) - 1

\* the value of a run of digits in which single underscores may separate digits
RECURSIVE DigitsValue(_, _)
DigitsValue(s, acc) ==
  IF s = <<>> THEN acc
  ELSE IF Head(s) = "_" THEN DigitsValue(Tail(s), acc)
       ELSE DigitsValue(Tail(s), acc * 10 + DigitValue(Head(s)))

IsIntBody(b) ==
  /\ b # <<>>
  /\ \A i \in DOMAIN b :
       \/ IsDigit(b[i])
       \/ /\ b[i] = "_"
          /\ 1 < i /\ i < Len(b)
          /\ IsDigit(b[i-1]) /\ IsDigit(b[i+1])

\* int(s) of a str: Present(n), or Absent where int raises ValueError
ParseInt(s) ==
  LET t      == RStripWs(LStripWs(s))
      signed == t # <<>> /\ Head(t) \in {"+", "-"}
      body   == IF signed THEN Tail(t) ELSE t
  IN  IF ~IsIntBody(body) THEN Absent
      ELSE IF signed /\ Head(t) = "-" THEN Present(0 - DigitsValue(body, 0))
           ELSE Present(DigitsValue(body, 0))

----------------------------------------------------------------------------
(* app/utils/validators.py                                                  *)

\* validate_limit with `if limit >= max_limit` for `if limit > max_limit`
ValidateLimitExclusive(limit_str, default0) ==
  LET default == IF default0 = Absent THEN DEFAULT_TWEET_LIMIT ELSE default0[1]
      limit   == ParseInt(limit_str)
  IN  IF limit_str = None THEN [kind |-> "ok", msg |-> "", value |-> default]
      ELSE IF limit = Absent
           THEN [kind |-> "ValueError", msg |-> "Must be an integer", value |-> 0]
      ELSE IF limit[1] < MIN_TWEET_LIMIT
           THEN [kind |-> "ValueError", msg |-> "Limit must be at least", value |-> 0]
      ELSE IF limit[1] >= MAX_TWEET_LIMIT
           THEN [kind |-> "ValueError", msg |-> "Limit cannot exceed", value |-> 0]
      ELSE [kind |-> "ok", msg |-> "", value |-> limit[1]]

\* validate_limit(limit_str, default): limit_str and default are optional
\* validate_limit without the `limit > max_limit` check
ValidateLimitNoMaximum(limit_str, default0) ==
  LET default == IF default0 = Absent THEN DEFAULT_TWEET_LIMIT ELSE default0[1]
      limit   == ParseInt(limit_str)
  IN  IF limit_str = None THEN [kind |-> "ok", msg |-> "", value |-> default]
      ELSE IF limit = Absent
           THEN [kind |-> "ValueError", msg |-> "Must be an integer", value |-> 0]
      ELSE IF limit[1] < MIN_TWEET_LIMIT
           THEN [kind |-> "ValueError", msg |-> "Limit must be at least", value |-> 0]
      ELSE [kind |-> "ok", msg |-> "", value |-> limit[1]]

ValidateLimit(limit_str, default0) ==
  LET default == IF default0 = Absent THEN DEFAULT_TWEET_LIMIT ELSE default0[1]
      limit   == ParseInt(limit_str)
  IN  IF limit_str = None THEN [kind |-> "ok", msg |-> "", value |-> default]
      ELSE IF limit = Absent
           THEN [kind |-> "ValueError", msg |-> "Must be an integer", value |-> 0]
      ELSE IF limit[1] < MIN_TWEET_LIMIT
           THEN [kind |-> "ValueError", msg |-> "Limit must be at least", value |-> 0]
      ELSE IF limit[1] > MAX_TWEET_LIMIT
           THEN [kind |-> "ValueError", msg |-> "Limit cannot exceed", value |-> 0]
      ELSE [kind |-> "ok", msg |-> "", value |-> limit[1]]

----------------------------------------------------------------------------
(* app/services/twitter_api_service.py                                      *)

\* s.replace('Z', '+00:00')
RECURSIVE ReplaceZ(_)
ReplaceZ(s) ==
  IF s = <<>> THEN <<>>
  ELSE (IF Head(s) = "Z" THEN <<"+","0","0",":","0","0">> ELSE <<Head(s)>>)
       \o ReplaceZ(Tail(s))

AllDigits(s) == \A i \in DOMAIN s : IsDigit(s[i])

\* the number written by the digits s[a..b]
Num(s, a, b) == DigitsValue(SubSeq(s, a, b), 0)

DaysInMonth(y, m) ==
  IF m = 2
  THEN (IF (y % 4 = 0 /\ y % 100 # 0) \/ y % 400 = 0 THEN 29 ELSE 28)
  ELSE IF m \in {4, 6, 9, 11} THEN 30 ELSE 31

\* "YYYY-MM-DD" at the start of s
IsoDateOk(s) ==
  /\ Len(s) >= 10
  /\ AllDigits(SubSeq(s, 1, 4)) /\ s[5] = "-"
  /\ AllDigits(SubSeq(s, 6, 7)) /\ s[8] = "-"
  /\ AllDigits(SubSeq(s, 9, 10))
  /\ Num(s, 1, 4) >= 1
  /\ Num(s, 6, 7) \in 1..12
  /\ Num(s, 9, 10) \in 1..DaysInMonth(Num(s, 1, 4), Num(s, 6, 7))

\* "+HH:MM" or "-HH:MM"
IsoOffsetOk(z) ==
  /\ Len(z) = 6
  /\ z[1] \in {"+", "-"}
  /\ AllDigits(SubSeq(z, 2, 3)) /\ z[4] = ":" /\ AllDigits(SubSeq(z, 5, 6))
  /\ Num(z, 2, 3) < 24 /\ Num(z, 5, 6) < 60

\* the position of the UTC offset in a time string, or Len + 1
OffsetStart(t) ==
  LET at == {i \in DOMAIN t : t[i] \in {"+", "-"}}
  IN  IF at = {} THEN Len(t) + 1 ELSE CHOOSE i \in at : \A j \in at : i <= j

\* "HH[:MM[:SS[.fff[fff]]]]" with an optional UTC offset
IsoTimeOk(t) ==
  LET cut == OffsetStart(t)
      c   == SubSeq(t, 1, cut - 1)
      z   == SubSeq(t, cut, Len(t))
      n   == Len(c)
  IN  /\ z = <<>> \/ IsoOffsetOk(z)
      /\ n \in {2, 5, 8, 12, 15}
      /\ AllDigits(SubSeq(c, 1, 2)) /\ Num(c, 1, 2) < 24
      /\ n >= 5 => (c[3] = ":" /\ AllDigits(SubSeq(c, 4, 5)) /\ Num(c, 4, 5) < 60)
      /\ n >= 8 => (c[6] = ":" /\ AllDigits(SubSeq(c, 7, 8)) /\ Num(c, 7, 8) < 60)
      /\ n >= 12 => (c[9] = "." /\ AllDigits(SubSeq(c, 10, n)))

\* the time of day, in minutes, written by a time string that IsoTimeOk accepts
IsoMinutes(t) ==
  LET c == SubSeq(t, 1, OffsetStart(t) - 1)
  IN  Num(c, 1, 2) * 60 + (IF Len(c) >= 5 THEN Num(c, 4, 5) ELSE 0)

\* datetime.fromisoformat(s): Present(minutes since 1970-01-01 of the wall
\* clock fields), or Absent where it raises ValueError
FromIsoFormat(s) ==
  IF ~IsoDateOk(s) THEN Absent
  ELSE LET days == DaysFromCivil(Num(s, 1, 4), Num(s, 6, 7), Num(s, 9, 10))
           t    == SubSeq(s, 12, Len(s))
       IN  IF Len(s) = 10 THEN Present(days * MINUTES_PER_DAY)
           ELSE IF Len(s) = 11 \/ ~IsoTimeOk(t) THEN Absent
           ELSE Present(days * MINUTES_PER_DAY + IsoMinutes(t))

\* TwitterAPIService._format_date
\* dt.strftime(DATE_FORMAT), or the except clause returning iso_date
FormatParsed(dt, iso_date) == IF dt = Absent THEN iso_date ELSE Strftime(dt[1])

\* TwitterAPIService._format_date
FormatDate(iso_date) ==
  IF iso_date = None THEN None
  ELSE FormatParsed(FromIsoFormat(ReplaceZ(iso_date)), iso_date)

\* users[user['id']] = user for each user of data['includes']['users']:
\* the entry kept for an id is the last one of the list
UsersLookup(data) ==
  IF Has(data.includes) /\ Has(data.includes[1].users)
  THEN data.includes[1].users[1]
  ELSE <<>>

\* users.get(author_id, {}) as an optional user
UsersGet(users, author_id) ==
  LET hits == {k \in DOMAIN users : Present(users[k].id) = author_id}
  IN  IF hits = {} THEN Absent
      ELSE Present(users[CHOOSE k \in hits : \A j \in hits : j <= k])

\* the body of the loop over data['data']: the Tweet of one item, or
\* Absent where int(author_id) raises ValueError
ParseItem(users, tweet_data) ==
  LET author_id   == tweet_data.author_id
      author_info == UsersGet(users, author_id)
      fullname    == IF Has(author_info)
                     THEN Get(author_info[1].name, <<"U","n","k","n","o","w","n">>)
                     ELSE <<"U","n","k","n","o","w","n">>
      username    == IF Has(author_info)
                     THEN Get(author_info[1].username, <<"u","n","k","n","o","w","n">>)
                     ELSE <<"u","n","k","n","o","w","n">>
      id          == IF Has(author_id) /\ Truthy(author_id[1])
                     THEN ParseInt(author_id[1]) ELSE Present(0)
      metrics     == tweet_data.public_metrics
      text        == Get(tweet_data.text, <<>>)
      created_at  == Get(tweet_data.created_at, <<>>)
  IN  IF id = Absent THEN Absent
      ELSE Present(Tweet(Account(fullname, <<"/">> \o username, id[1]),
                         FormatDate(created_at), text,
                         IF Has(metrics) THEN Get(metrics[1].reply_count, 0) ELSE 0,
                         IF Has(metrics) THEN Get(metrics[1].retweet_count, 0) ELSE 0,
                         IF Has(metrics) THEN Get(metrics[1].like_count, 0) ELSE 0,
                         SelectSeq(Split(text), IsHashtag)))

\* the tweets list the loop builds, unless an item raised
ParsedTweets(tweets) ==
  IF \E k \in DOMAIN tweets : tweets[k] = Absent
  THEN [kind |-> "ValueError", msg |-> "invalid literal for int()", posts |-> <<>>]
  ELSE [kind |-> "ok", msg |-> "", posts |-> [k \in DOMAIN tweets |-> tweets[k][1]]]

\* _parse_tweets_response reading data['data'] without the `'data' not in
\* data` check: a payload with no data key raises KeyError
ParseTweetsResponseKeyError(data) ==
  IF ~Has(data.data) THEN [kind |-> "KeyError", msg |-> "data", posts |-> <<>>]
  ELSE ParsedTweets([k \in DOMAIN data.data[1] |->
                       ParseItem(UsersLookup(data), data.data[1][k])])

\* TwitterAPIService._parse_tweets_response
ParseTweetsResponse(data) ==
  IF ~Has(data.data) THEN [kind |-> "ok", msg |-> "", posts |-> <<>>]
  ELSE ParsedTweets([k \in DOMAIN data.data[1] |->
                       ParseItem(UsersLookup(data), data.data[1][k])])

\* one requests.get of the service: the endpoint, its argument (the query,
\* the username or the user id) and max_results (0 where none is sent)
Request(endpoint, arg, max_results) ==
  [endpoint |-> endpoint, arg |-> arg, max_results |-> max_results]

\* max(limit, 100) written for min(limit, 100)
Max(a, b) == IF a < b THEN b ELSE a

Min(a, b) == IF a < b THEN a ELSE b

ApiReturned(posts, calls) == [kind |-> "ok", msg |-> "", posts |-> posts, calls |-> calls]

ApiRaised(kind, msg, calls) == [kind |-> kind, msg |-> msg, posts |-> <<>>, calls |-> calls]

\* return self._parse_tweets_response(data), after the requests in calls
ApiParsed(parsed, calls) ==
  [kind |-> parsed.kind, msg |-> parsed.msg, posts |-> parsed.posts, calls |-> calls]

\* the three status checks without `if response.status_code == 403`
HandleApiErrorsWithout403(status_code) ==
  IF status_code = 429 THEN "Rate limit exceeded"
  ELSE IF status_code = 401 THEN "Authentication failed"
  ELSE ""

\* TwitterAPIService._handle_api_errors and the same three checks written
\* out in get_tweets_by_hashtag: the message raised, or "" for none
HandleApiErrors(status_code) ==
  IF status_code = 429 THEN "Rate limit exceeded"
  ELSE IF status_code = 401 THEN "Authentication failed"
  ELSE IF status_code = 403 THEN "Access forbidden"
  ELSE ""

\* response.raise_for_status() raises HTTPError, a RequestException
RaisesForStatus(status_code) == status_code >= 400 /\ status_code < 600

\* what follows one requests.get up to response.json(): the error raised,
\* as <<kind, msg>>, or <<>> when the JSON body is handed on
ResponseError(resp) ==
  IF resp.exc THEN <<"RuntimeError", "API request failed">>
  ELSE IF HandleApiErrors(resp.status_code) # ""
       THEN <<"RuntimeError", HandleApiErrors(resp.status_code)>>
  ELSE IF RaisesForStatus(resp.status_code)
       THEN <<"RuntimeError", "API request failed">>
  ELSE <<>>

\* TwitterAPIService.get_tweets_by_hashtag; resp is what the search call meets
ApiTweetsByHashtag(hashtag0, limit, resp) ==
  IF hashtag0 = <<>>
  THEN ApiRaised("ValueError", "Hashtag cannot be empty", <<>>)
  ELSE LET hashtag == LStrip(hashtag0, "#")
           calls   == <<Request("/tweets/search/recent", <<"#">> \o hashtag,
                                Min(limit, 100))>>
           err     == ResponseError(resp)
       IN  IF err # <<>> THEN ApiRaised(err[1], err[2], calls)
           ELSE ApiParsed(ParseTweetsResponse(resp.json), calls)

\* get_user_tweets that sends the lookup a second time when it failed
ApiUserTweetsRetrying(username0, limit, uresp, resp) ==
  IF username0 = <<>>
  THEN ApiRaised("ValueError", "Username cannot be empty", <<>>)
  ELSE LET username == LStrip(username0, "@")
           call1    == Request("/users/by/username", username, 0)
           err1     == ResponseError(uresp)
           user     == uresp.json.data
           call2    == Request("/users/:id/tweets", user[1].id, Min(limit, 100))
           err2     == ResponseError(resp)
           tweets_data == IF Has(resp.json.data)
                          THEN [resp.json EXCEPT
                                  !.includes = Present([users |-> Present(<<user[1]>>)])]
                          ELSE resp.json
       IN  IF err1 # <<>> THEN ApiRaised(err1[1], err1[2], <<call1, call1>>)
           ELSE IF ~Has(user) THEN ApiRaised("RuntimeError", "User not found", <<call1>>)
           ELSE IF err2 # <<>> THEN ApiRaised(err2[1], err2[2], <<call1, call2>>)
           ELSE ApiParsed(ParseTweetsResponse(tweets_data), <<call1, call2>>)

\* TwitterAPIService.get_user_tweets; uresp is what the user lookup meets
\* and resp what the timeline call meets
ApiUserTweets(username0, limit, uresp, resp) ==
  IF username0 = <<>>
  THEN ApiRaised("ValueError", "Username cannot be empty", <<>>)
  ELSE LET username == LStrip(username0, "@")
           call1    == Request("/users/by/username", username, 0)
           err1     == ResponseError(uresp)
           user     == uresp.json.data
           call2    == Request("/users/:id/tweets", user[1].id, Min(limit, 100))
           err2     == ResponseError(resp)
           tweets_data == IF Has(resp.json.data)
                          THEN [resp.json EXCEPT
                                  !.includes = Present([users |-> Present(<<user[1]>>)])]
                          ELSE resp.json
       IN  IF err1 # <<>> THEN ApiRaised(err1[1], err1[2], <<call1>>)
           ELSE IF ~Has(user) THEN ApiRaised("RuntimeError", "User not found", <<call1>>)
           ELSE IF err2 # <<>> THEN ApiRaised(err2[1], err2[2], <<call1, call2>>)
           ELSE ApiParsed(ParseTweetsResponse(tweets_data), <<call1, call2>>)

\* __init__ without `if not self.bearer_token: raise ValueError(...)`: the
\* instance keeps whatever it was given
ApiInitDeferred(bearer_token, env0) ==
  Present(IF Truthy(bearer_token) THEN bearer_token ELSE env0)

\* TwitterAPIService.__init__(bearer_token) with the environment value env0:
\* the token the instance keeps, or Absent where it raises ValueError
ApiInit(bearer_token, env0) ==
  LET token == IF Truthy(bearer_token) THEN bearer_token ELSE env0
  IN  IF Truthy(token) THEN Present(token) ELSE Absent

----------------------------------------------------------------------------
(* app/services/__init__.py                                                 *)

\* get_twitter_service with `if bearer_token is not None` for `if bearer_token`
GetTwitterServiceIsNotNone(env0) ==
  IF env0 # None THEN "TwitterAPIService" ELSE "TwitterMockService"

\* get_twitter_service that returns TwitterMockService() on both branches
GetTwitterServiceMockOnly(env0) == "TwitterMockService"

\* get_twitter_service: the class it instantiates for the environment value
GetTwitterService(env0) == IF Truthy(env0) THEN "TwitterAPIService" ELSE "TwitterMockService"

----------------------------------------------------------------------------
(* app/routes/hashtags.py, app/routes/users.py                              *)

\* limit: int = Query(default=30), without ge and le
QueryLimitUnbounded(raw) == IF raw = None THEN Present(30) ELSE ParseInt(raw)

\* limit: int = Query(default=30, ge=1, le=100): Present(limit), or Absent
\* where the request is answered 422 before the handler runs
QueryLimit(raw) ==
  IF raw = None THEN Present(30)
  ELSE LET v == ParseInt(raw)
       IN  IF v = Absent THEN Absent
           ELSE IF v[1] >= 1 /\ v[1] <= 100 THEN v ELSE Absent

\* the except clauses of the handlers: the status of the response
StatusOf(kind) ==
  IF kind = "ok" THEN 200
  ELSE IF kind = "ValueError" THEN 400
  ELSE 500

\* tweet.to_dict()
ToDict(tweet) ==
  [account  |-> [fullname |-> tweet.account.fullname, href |-> tweet.account.href,
                 id |-> tweet.account.id],
   date     |-> tweet.date,
   text     |-> tweet.text,
   replies  |-> tweet.replies,
   retweets |-> tweet.retweets,
   likes    |-> tweet.likes,
   hashtags |-> tweet.hashtags]

----------------------------------------------------------------------------
(* The values the operations are called with                                *)

\* the largest of the small limits passed to the backends and the longest
\* data array of a payload
SmallLimit == 2
MaxItems == 2

EMPTY == <<>>
PYTHON == <<"p","y","t","h","o","n">>
RUST == <<"r","u","s","t">>
TWITTER == <<"t","w","i","t","t","e","r">>
UNKNOWNUSER == <<"u","n","k","n","o","w","n","u","s","e","r","1","2","3">>
TOKEN == <<"t","o","k">>
ENV_TOKEN == <<"e","n","v","t","o","k">>

\* hashtag arguments: "", "#", "python", "#python", "##Python", "rust"
TagKeys ==
  {EMPTY, <<"#">>, PYTHON, <<"#">> \o PYTHON, <<"#","#","P">> \o Tail(PYTHON), RUST}

\* username arguments: "", "@", "twitter", "@twitter", "@@ThePSF",
\* "unknownuser123"
UserKeys ==
  {EMPTY, <<"@">>, TWITTER, <<"@">> \o TWITTER, <<"@","@","T","h","e","P","S","F">>,
   UNKNOWNUSER}

\* limit arguments
Limits == 0 .. SmallLimit

\* the largest limit argument
LargeLimits == {MAX_TWEET_LIMIT}

\* readings of datetime.now(): 2024-03-01 02:54 and 2024-03-01 14:35
Clock ==
  {DaysFromCivil(2024, 3, 1) * MINUTES_PER_DAY + 174,
   DaysFromCivil(2024, 3, 1) * MINUTES_PER_DAY + 875}

\* values of TWITTER_BEARER_TOKEN: unset, "", "envtok"
EnvValues == {None, EMPTY, ENV_TOKEN}

\* bearer_token arguments: None, "", "tok"
TokenArgs == {None, EMPTY, TOKEN}

USER_TEST ==
  [id |-> <<"9","8","7","6","5","4","3","2","1">>,
   name |-> Present(<<"T","e","s","t"," ","U","s","e","r">>),
   username |-> Present(<<"t","e","s","t","u","s","e","r">>)]

USER_RENAMED ==
  [id |-> <<"9","8","7","6","5","4","3","2","1">>,
   name |-> Present(<<"O","l","d"," ","N","a","m","e">>),
   username |-> Present(<<"o","l","d","n","a","m","e">>)]

USER_OTHER ==
  [id |-> <<"1","2">>,
   name |-> Present(<<"T","w","i","t","t","e","r">>),
   username |-> Present(<<"T","w","i","t","t","e","r">>)]

\* the item of test_parse_response_structure
ITEM_TEST ==
  [author_id |-> Present(<<"9","8","7","6","5","4","3","2","1">>),
   text |-> Present(<<"T","h","i","s"," ","i","s"," ","a"," ","t","e","s","t"," ",
                      "t","w","e","e","t"," ","#","p","y","t","h","o","n">>),
   created_at |-> Present(<<"2","0","2","3","-","0","3","-","1","5","T","1","4",":",
                            "3","0",":","0","0",".","0","0","0","Z">>),
   public_metrics |-> Present([reply_count |-> Present(5),
                               retweet_count |-> Present(10),
                               like_count |-> Present(50)])]

\* an item with no field at all, as a timeline item with no author_id
ITEM_BARE ==
  [author_id |-> Absent, text |-> Absent, created_at |-> Absent,
   public_metrics |-> Absent]

\* text "#AI  news\n#ml #AI", an unparseable date, one metric only
ITEM_PARTIAL ==
  [author_id |-> Present(<<"1","2">>),
   text |-> Present(<<"#","A","I"," "," ","n","e","w","s","\n","#","m","l"," ",
                      "#","A","I">>),
   created_at |-> Present(<<"n","o","t","-","a","-","d","a","t","e">>),
   public_metrics |-> Present([reply_count |-> Absent,
                               retweet_count |-> Present(7),
                               like_count |-> Absent])]

\* an author_id that is no decimal number
ITEM_BADID ==
  [author_id |-> Present(<<"a","b","c">>),
   text |-> Present(<<"x","#","y">>),
   created_at |-> Present(<<"2","0","2","4","-","0","2","-","2","9">>),
   public_metrics |-> Absent]

Items == {ITEM_TEST, ITEM_BARE, ITEM_PARTIAL, ITEM_BADID}

\* an item whose author_id and counts are below zero
ITEM_NEGATIVE ==
  [author_id |-> Present(<<"-","5">>),
   text |-> Present(<<"d","e","b","i","t"," ","#","r","u","s","t">>),
   created_at |-> Present(<<"2","0","2","4","-","0","2","-","2","9">>),
   public_metrics |-> Present([reply_count |-> Present(0 - 1),
                               retweet_count |-> Present(0),
                               like_count |-> Present(0 - 3)])]

UserLists ==
  {<<>>, <<USER_TEST>>, <<USER_TEST, USER_RENAMED>>, <<USER_OTHER, USER_TEST>>}

IncludesOptions ==
  {Absent, Present([users |-> Absent])}
    \cup {Present([users |-> Present(us)]) : us \in UserLists}

\* the sequences over S of length at most n
SeqsUpTo(S, n) == UNION {[1 .. k -> S] : k \in 0 .. n}

Payload(data, includes) == [data |-> data, includes |-> includes]

\* JSON bodies of the search and timeline calls
Payloads ==
  {Payload(d, i) :
     d \in {Absent} \cup {Present(s) : s \in SeqsUpTo(Items, MaxItems)},
     i \in IncludesOptions}

\* what a requests.get meets: a RequestException (exc), or a response with
\* its status code and JSON body
Response(exc, status_code, json) ==
  [exc |-> exc, status_code |-> status_code, json |-> json]

NoPayload == Payload(Absent, Absent)

ErrorStatuses == {401, 403, 429, 404, 500}

\* the responses of the search and timeline calls used with the operations
Responses ==
  {Response(TRUE, 0, NoPayload)}
    \cup {Response(FALSE, c, NoPayload) : c \in ErrorStatuses}
    \cup {Response(FALSE, 200, Payload(d, i)) :
            d \in {Absent} \cup {Present(s) : s \in SeqsUpTo(Items, 1)},
            i \in {Absent, Present([users |-> Present(<<USER_TEST>>)])}}

NoUser == [data |-> Absent]

\* the responses of the user lookup
UserResponses ==
  {Response(TRUE, 0, NoUser)}
    \cup {Response(FALSE, c, NoUser) : c \in ErrorStatuses \cup {200}}
    \cup {Response(FALSE, 200, [data |-> Present(u)]) : u \in {USER_TEST, USER_OTHER}}

\* limit_str arguments of validate_limit and limit query parameters
RawLimits ==
  {None, EMPTY, <<"5","0">>, <<"0">>, <<"2","0","0">>, <<"a","b","c">>, <<"1">>,
   <<"1","0","0">>, <<"1","0","1">>, <<"-","1">>, <<"+","7">>, <<" ","9","9","\n">>,
   <<"1","_","0">>, <<"1","_">>, <<"3",".","5">>, <<"-">>, <<"0","0","3","0">>}

\* default arguments of validate_limit: omitted, 30, and other integers
Defaults == {Absent} \cup {Present(d) : d \in {0 - 5, 0, 1, 30, 100, 500}}

----------------------------------------------------------------------------
(* The state machine                                                        *)

NoResponse == Response(FALSE, 0, NoPayload)
NoUserResponse == Response(FALSE, 0, NoUser)

\* the record of a call before its arguments and outcome are filled in
Call(op) ==
  [op |-> op, key |-> EMPTY, limit |-> 0, raw |-> None, default |-> Absent,
   token |-> None, now |-> 0, resp |-> NoResponse, uresp |-> NoUserResponse,
   backend |-> "", kind |-> "", msg |-> "", posts |-> <<>>, calls |-> <<>>,
   status |-> 0, value |-> 0]

\* the record of a call on the API instance: the responses are those of
\* the requests it made
ApiCall(op, key, limit, token, uresp, resp, out) ==
  [Call(op) EXCEPT
     !.backend = "TwitterAPIService", !.key = key, !.limit = limit, !.token = token,
     !.uresp = IF op = "get_user_tweets" /\ Len(out.calls) >= 1
               THEN uresp ELSE NoUserResponse,
     !.resp = IF Len(out.calls) >= (IF op = "get_user_tweets" THEN 2 ELSE 1)
              THEN resp ELSE NoResponse,
     !.kind = out.kind, !.msg = out.msg, !.posts = out.posts, !.calls = out.calls]

\* the record of a call of the normalisation on its own
ParseCall(token, data, out) ==
  [Call("_parse_tweets_response") EXCEPT
     !.backend = "TwitterAPIService", !.token = token,
     !.resp = Response(FALSE, 200, data),
     !.kind = out.kind, !.msg = out.msg, !.posts = out.posts]

\* the record of a call of validate_limit
ValidateCall(limit_str, default, out) ==
  [Call("validate_limit") EXCEPT
     !.raw = limit_str, !.default = default, !.kind = out.kind,
     !.msg = out.msg, !.value = out.value]

\* the record of a call on the mock instance: now is what datetime.now()
\* returned where the call read it
MockCall(op, key, limit, now, out) ==
  [Call(op) EXCEPT
     !.backend = "TwitterMockService", !.key = key, !.limit = limit,
     !.now = IF out.posts = <<>> THEN 0 ELSE now,
     !.kind = out.kind, !.msg = out.msg, !.posts = out.posts]

\* the requests that the server can have accepted at one time
Requests == {"r1", "r2"}

\* a slot with no request in it
Idle ==
  [phase |-> "idle", route |-> "", key |-> EMPTY, limit |-> 0, now |-> 0, draws |-> <<>>]

\* the client has kept no response
NothingKept == [first |-> Call(""), between |-> FALSE]

Init ==
  /\ env = None
  /\ rng = 0
  /\ mock = FALSE
  /\ api = None
  /\ last = Call("")
  /\ inflight = [r \in Requests |-> Idle]
  /\ kept = NothingKept

\* os.environ['TWITTER_BEARER_TOKEN'] is set or unset outside the service
SetEnv ==
  \E v \in EnvValues :
    /\ v # env
    /\ env' = v
    /\ UNCHANGED <<rng, mock, api, last, inflight, kept>>

\* TwitterMockService()
NewMock ==
  /\ rng' = Seed(42)
  /\ mock' = TRUE
  /\ last' = [Call("TwitterMockService") EXCEPT !.kind = "ok", !.backend = "TwitterMockService"]
  /\ UNCHANGED <<env, api, inflight, kept>>

\* TwitterAPIService(bearer_token)
NewApi ==
  \E bearer_token \in TokenArgs :
    LET made == ApiInit(bearer_token, env)
    IN  /\ api' = IF made = Absent THEN api ELSE made[1]
        /\ last' = [Call("TwitterAPIService") EXCEPT
                      !.token = bearer_token,
                      !.kind = IF made = Absent THEN "ValueError" ELSE "ok",
                      !.msg = IF made = Absent THEN "Bearer Token is required" ELSE "",
                      !.backend = IF made = Absent THEN "" ELSE "TwitterAPIService"]
        /\ UNCHANGED <<env, rng, mock, inflight, kept>>

\* get_twitter_service(), the caller keeping the instance it returns
GetService ==
  LET cls  == GetTwitterService(env)
      made == ApiInit(env, env)
  IN  /\ rng' = IF cls = "TwitterMockService" THEN Seed(42) ELSE rng
      /\ mock' = IF cls = "TwitterMockService" THEN TRUE ELSE mock
      /\ api' = IF cls = "TwitterAPIService" /\ made # Absent THEN made[1] ELSE api
      /\ last' = [Call("get_twitter_service") EXCEPT
                    !.token = env,
                    !.kind = IF cls = "TwitterAPIService" /\ made = Absent
                             THEN "ValueError" ELSE "ok",
                    !.msg = IF cls = "TwitterAPIService" /\ made = Absent
                            THEN "Bearer Token is required" ELSE "",
                    !.backend = IF cls = "TwitterAPIService" /\ made = Absent
                                THEN "" ELSE cls]
      /\ UNCHANGED <<env, inflight, kept>>

\* service.get_tweets_by_hashtag(hashtag, limit) on the mock instance
MockHashtag(Keys, Lims) ==
  \E hashtag \in Keys, limit \in Lims, now \in Clock :
    /\ mock
    /\ rng' = MockTweetsByHashtag(hashtag, limit, rng, now).rng
    /\ last' = MockCall("get_tweets_by_hashtag", hashtag, limit, now,
                        MockTweetsByHashtag(hashtag, limit, rng, now))
    /\ UNCHANGED <<env, mock, api, inflight, kept>>

\* service.get_user_tweets(username, limit) on the mock instance
MockUser(Keys, Lims) ==
  \E username \in Keys, limit \in Lims, now \in Clock :
    /\ mock
    /\ rng' = MockUserTweets(username, limit, rng, now).rng
    /\ last' = MockCall("get_user_tweets", username, limit, now,
                        MockUserTweets(username, limit, rng, now))
    /\ UNCHANGED <<env, mock, api, inflight, kept>>

\* service.get_tweets_by_hashtag(hashtag, limit) on the API instance
ApiHashtag(Keys, Lims, Resps) ==
  \E hashtag \in Keys, limit \in Lims, resp \in Resps :
    /\ api # None
    /\ last' = ApiCall("get_tweets_by_hashtag", hashtag, limit, api, NoUserResponse,
                       resp, ApiTweetsByHashtag(hashtag, limit, resp))
    /\ UNCHANGED <<env, rng, mock, api, inflight, kept>>

\* service.get_user_tweets(username, limit) on the API instance
ApiUser(Keys, Lims, UResps, Resps) ==
  \E username \in Keys, limit \in Lims, uresp \in UResps, resp \in Resps :
    /\ api # None
    /\ last' = ApiCall("get_user_tweets", username, limit, api, uresp, resp,
                       ApiUserTweets(username, limit, uresp, resp))
    /\ UNCHANGED <<env, rng, mock, api, inflight, kept>>

\* service._parse_tweets_response(data) on the API instance
ParseResponse(Datas) ==
  \E data \in Datas :
    /\ api # None
    /\ last' = ParseCall(api, data, ParseTweetsResponse(data))
    /\ UNCHANGED <<env, rng, mock, api, inflight, kept>>

\* validate_limit(limit_str, default)
Validate ==
  \E limit_str \in RawLimits, default \in Defaults :
    /\ last' = ValidateCall(limit_str, default, ValidateLimit(limit_str, default))
    /\ UNCHANGED <<env, rng, mock, api, inflight, kept>>

\* the response of a handler that ran on the service of class cls
Responded(route, key, raw, limit, cls, token, now, uresp, resp, out) ==
  [Call(route) EXCEPT
     !.key = key, !.raw = raw, !.limit = limit, !.backend = cls, !.token = token,
     !.now = IF cls = "TwitterMockService" /\ out.posts # <<>> THEN now ELSE 0,
     !.uresp = IF cls = "TwitterAPIService" /\ route = "GET /users/{username}"
                  /\ Len(out.calls) >= 1
               THEN uresp ELSE NoUserResponse,
     !.resp = IF cls = "TwitterAPIService"
                 /\ Len(out.calls) >= (IF route = "GET /users/{username}" THEN 2 ELSE 1)
              THEN resp ELSE NoResponse,
     !.kind = out.kind, !.msg = out.msg,
     !.posts = [k \in DOMAIN out.posts |-> ToDict(out.posts[k])],
     !.calls = out.calls,
     !.status = StatusOf(out.kind)]

\* the 422 response to a limit that Query(ge=1, le=100) rejects
Rejected(route, key, raw) ==
  [Call(route) EXCEPT
     !.key = key, !.raw = raw, !.kind = "RequestValidationError", !.status = 422]

\* a call on a mock service, as a call that made no request
MockOut(out) == ApiParsed(out, <<>>)

\* GET /hashtags/{hashtag}?limit=raw: the handler runs only for a limit
\* that Query accepts; the service it gets from the factory is a new mock
\* service, which reseeds the generator, or a new API service
HashtagsRoute(Keys, Raws, Resps) ==
  \E hashtag \in Keys \ {EMPTY}, raw \in Raws :
    /\ \/ /\ QueryLimit(raw) = Absent
          /\ last' = Rejected("GET /hashtags/{hashtag}", hashtag, raw)
          /\ rng' = rng
       \/ /\ QueryLimit(raw) # Absent
          /\ GetTwitterService(env) = "TwitterMockService"
          /\ \E now \in Clock :
               /\ last' = Responded("GET /hashtags/{hashtag}", hashtag, raw,
                                    QueryLimit(raw)[1], "TwitterMockService", None,
                                    now, NoUserResponse, NoResponse,
                                    MockOut(MockTweetsByHashtag(
                                      hashtag, QueryLimit(raw)[1], Seed(42), now)))
               /\ rng' = MockTweetsByHashtag(hashtag, QueryLimit(raw)[1],
                                             Seed(42), now).rng
       \/ /\ QueryLimit(raw) # Absent
          /\ GetTwitterService(env) = "TwitterAPIService"
          /\ \E resp \in Resps :
               last' = Responded("GET /hashtags/{hashtag}", hashtag, raw,
                                 QueryLimit(raw)[1], "TwitterAPIService",
                                 ApiInit(env, env)[1], 0, NoUserResponse, resp,
                                 ApiTweetsByHashtag(hashtag, QueryLimit(raw)[1], resp))
          /\ rng' = rng
    /\ UNCHANGED <<env, mock, api, inflight, kept>>

\* GET /users/{username}?limit=raw
UsersRoute(Keys, Raws, UResps, Resps) ==
  \E username \in Keys \ {EMPTY}, raw \in Raws :
    /\ \/ /\ QueryLimit(raw) = Absent
          /\ last' = Rejected("GET /users/{username}", username, raw)
          /\ rng' = rng
       \/ /\ QueryLimit(raw) # Absent
          /\ GetTwitterService(env) = "TwitterMockService"
          /\ \E now \in Clock :
               /\ last' = Responded("GET /users/{username}", username, raw,
                                    QueryLimit(raw)[1], "TwitterMockService", None,
                                    now, NoUserResponse, NoResponse,
                                    MockOut(MockUserTweets(
                                      username, QueryLimit(raw)[1], Seed(42), now)))
               /\ rng' = MockUserTweets(username, QueryLimit(raw)[1],
                                        Seed(42), now).rng
       \/ /\ QueryLimit(raw) # Absent
          /\ GetTwitterService(env) = "TwitterAPIService"
          /\ \E uresp \in UResps, resp \in Resps :
               last' = Responded("GET /users/{username}", username, raw,
                                 QueryLimit(raw)[1], "TwitterAPIService",
                                 ApiInit(env, env)[1], 0, uresp, resp,
                                 ApiUserTweets(username, QueryLimit(raw)[1], uresp, resp))
          /\ rng' = rng
    /\ UNCHANGED <<env, mock, api, inflight, kept>>

\* the requests whose handlers are followed statement by statement
HandlerTagKeys == {RUST, <<"#">> \o PYTHON}
HandlerUserKeys == {UNKNOWNUSER, <<"@">> \o TWITTER}
HandlerLimits == {1, SmallLimit}

\* the service operation that the handler of a route calls
OperationOf(route) ==
  IF route = "GET /hashtags/{hashtag}" THEN "get_tweets_by_hashtag" ELSE "get_user_tweets"

\* handlers declared with `def`: FastAPI runs each in a worker thread, so
\* a handler starts whatever the others are doing
MayStartInThreadPool(r, slots) == TRUE

\* both handlers are `async def` and await nothing: the event loop runs a
\* handler from its first statement to its return before it starts the
\* handler of another request
MayStart(r, slots) == \A q \in Requests \ {r} : slots[q].phase # "running"

\* the server accepts a request with a valid limit; its handler has not
\* started
RequestArrives ==
  \E r \in Requests, limit \in HandlerLimits,
     route \in {"GET /hashtags/{hashtag}", "GET /users/{username}"} :
    \E key \in (IF route = "GET /hashtags/{hashtag}"
                THEN HandlerTagKeys ELSE HandlerUserKeys) :
      /\ inflight[r] = Idle
      /\ inflight' = [inflight EXCEPT ![r] = [Idle EXCEPT !.phase = "pending",
                                                !.route = route, !.key = key,
                                                !.limit = limit]]
      /\ UNCHANGED <<env, rng, mock, api, last, kept>>

\* the handler of a pending request starts: get_twitter_service() with no
\* token set builds a TwitterMockService, which seeds the generator
HandlerStarts ==
  \E r \in Requests, now \in Clock :
    /\ inflight[r].phase = "pending"
    /\ GetTwitterService(env) = "TwitterMockService"
    /\ MayStart(r, inflight)
    /\ rng' = Seed(42)
    /\ mock' = TRUE
    /\ inflight' = [inflight EXCEPT ![r].phase = "running", ![r].now = now]
    /\ UNCHANGED <<env, api, last, kept>>

\* one random.choice or random.randint of a running handler's operation
HandlerDraws ==
  \E r \in Requests :
    /\ inflight[r].phase = "running"
    /\ Len(inflight[r].draws)
         < DrawsNeeded(OperationOf(inflight[r].route), inflight[r].key, inflight[r].limit)
    /\ inflight' = [inflight EXCEPT ![r].draws = Append(@, rng)]
    /\ rng' = Advance(rng)
    /\ UNCHANGED <<env, mock, api, last, kept>>

\* the operation returns its tweets after the last draw and the handler
\* answers with their to_dict forms
HandlerReturns ==
  \E r \in Requests :
    /\ inflight[r].phase = "running"
    /\ Len(inflight[r].draws)
         = DrawsNeeded(OperationOf(inflight[r].route), inflight[r].key, inflight[r].limit)
    /\ last' = Responded(inflight[r].route, inflight[r].key, Decimal(inflight[r].limit),
                         inflight[r].limit, "TwitterMockService", None, inflight[r].now,
                         NoUserResponse, NoResponse,
                         MockOut(Returned(TweetsDrawn(OperationOf(inflight[r].route),
                                                      inflight[r].key, inflight[r].limit,
                                                      inflight[r].draws, inflight[r].now),
                                          rng)))
    /\ inflight' = [inflight EXCEPT ![r] = Idle]
    /\ UNCHANGED <<env, rng, mock, api, kept>>

----------------------------------------------------------------------------
(* Specifications                                                           *)

\* the arguments used where several components run side by side
\* the request of a response: its route, key and limit
RequestOf(l) == <<l.op, l.key, l.limit>>

\* a client keeps the response it has just received from the mock backend
ClientKeeps ==
  /\ kept = NothingKept
  /\ last.op \in {"GET /hashtags/{hashtag}", "GET /users/{username}"}
  /\ last.backend = "TwitterMockService"
  /\ last.status = 200
  /\ kept' = [first |-> last, between |-> FALSE]
  /\ UNCHANGED <<env, rng, mock, api, last, inflight>>

\* the client receives the response to another request after the one it
\* has kept
ClientSeesAnother ==
  /\ kept # NothingKept
  /\ ~kept.between
  /\ last.op \in {"GET /hashtags/{hashtag}", "GET /users/{username}"}
  /\ RequestOf(last) # RequestOf(kept.first)
  /\ kept' = [kept EXCEPT !.between = TRUE]
  /\ UNCHANGED <<env, rng, mock, api, last, inflight>>

FewTagKeys == {EMPTY, <<"#">>, RUST}
FewUserKeys == {EMPTY, <<"@">>, <<"@">> \o TWITTER}
FewLimits == {0, SmallLimit}
ApiLimits == {1, SmallLimit, MAX_TWEET_LIMIT, MAX_TWEET_LIMIT + 1}
FewResponses ==
  {Response(FALSE, 401, NoPayload), Response(FALSE, 200, NoPayload),
   Response(FALSE, 200, Payload(Present(<<ITEM_TEST>>), Absent))}
FewUserResponses ==
  {Response(FALSE, 200, NoUser), Response(FALSE, 200, [data |-> Present(USER_TEST)])}
FewRawLimits ==
  {None, <<"2">>, <<"0">>, <<"1","0","1">>, <<"a","b","c">>, <<"-","1">>}

PayloadsWithoutData == {p \in Payloads : ~Has(p.data)}

\* both backends, used directly
Next ==
  \/ NewMock
  \/ NewApi
  \/ MockHashtag(FewTagKeys, FewLimits)
  \/ MockUser(FewUserKeys, FewLimits)
  \/ ApiHashtag(FewTagKeys, FewLimits, FewResponses)
  \/ ApiUser(FewUserKeys, FewLimits, FewUserResponses, FewResponses)

Spec == Init /\ [][Next]_vars

\* the mock backend alone
NextMock ==
  \/ NewMock
  \/ MockHashtag(TagKeys, Limits)
  \/ MockUser(UserKeys, Limits)
  \/ MockHashtag({RUST}, LargeLimits)
  \/ MockUser({UNKNOWNUSER}, LargeLimits)

SpecMock == Init /\ [][NextMock]_vars

\* the API backend alone
NextApi ==
  \/ NewApi
  \/ ApiHashtag(TagKeys, ApiLimits, Responses)
  \/ ApiUser(FewUserKeys, FewLimits, UserResponses, Responses)
  \/ ParseResponse(PayloadsWithoutData)

SpecApi == Init /\ [][NextApi]_vars

\* the factory and the construction of the API backend
NextFactory ==
  \/ SetEnv
  \/ NewApi
  \/ GetService
  \/ ApiHashtag(FewTagKeys, FewLimits, FewResponses)
  \/ ApiUser(FewUserKeys, FewLimits, FewUserResponses, FewResponses)

SpecFactory == Init /\ [][NextFactory]_vars

\* keys with no, one and several leading markers, on both backends
MarkedTagKeys ==
  {PYTHON, <<"#">> \o PYTHON, <<"#","#","P">> \o Tail(PYTHON), <<"#","#","#">>}
MarkedUserKeys ==
  {<<"@">> \o TWITTER, <<"@","@","T","h","e","P","S","F">>, <<"@","@">> \o UNKNOWNUSER}
OneOrFew == {1, SmallLimit}

NextKeys ==
  \/ NewMock
  \/ NewApi
  \/ MockHashtag(MarkedTagKeys, OneOrFew)
  \/ MockUser(MarkedUserKeys, OneOrFew)
  \/ ApiHashtag(MarkedTagKeys, OneOrFew, FewResponses)
  \/ ApiUser(MarkedUserKeys, OneOrFew, FewUserResponses, FewResponses)

SpecKeys == Init /\ [][NextKeys]_vars

\* limits around the configured range, on both backends
EdgeLimits == {0 - 1, MIN_TWEET_LIMIT - 1, MIN_TWEET_LIMIT, MAX_TWEET_LIMIT + 1}

NextLimits ==
  \/ NewMock
  \/ NewApi
  \/ MockHashtag({RUST}, EdgeLimits)
  \/ MockUser({<<"@">> \o TWITTER}, EdgeLimits)
  \/ ApiHashtag({RUST}, EdgeLimits, FewResponses)
  \/ ApiUser({<<"@">> \o TWITTER}, EdgeLimits, FewUserResponses, FewResponses)

SpecLimits == Init /\ [][NextLimits]_vars

\* requests that are in the server at the same time, handler steps shown
NextHandlers ==
  \/ RequestArrives
  \/ HandlerStarts
  \/ HandlerDraws
  \/ HandlerReturns

SpecHandlers == Init /\ [][NextHandlers]_vars

\* the normalisation of upstream payloads
NextParse ==
  \/ NewApi
  \/ ParseResponse(Payloads)

SpecParse == Init /\ [][NextParse]_vars

\* the limit validator
NextValidate == Validate

SpecValidate == Init /\ [][NextValidate]_vars

\* the two routes
NextHttp ==
  \/ SetEnv
  \/ HashtagsRoute(FewTagKeys, FewRawLimits, FewResponses)
  \/ UsersRoute(FewUserKeys, FewRawLimits, FewUserResponses, FewResponses)

SpecHttp == Init /\ [][NextHttp]_vars

\* the two routes with a valid and an invalid limit, over every response
\* of the upstream
UpstreamTagKeys == {RUST, <<"#">> \o RUST}
UpstreamUserKeys == {TWITTER, <<"@">> \o TWITTER}
UpstreamRawLimits == {<<"2">>, <<"0">>}

NextUpstream ==
  \/ SetEnv
  \/ HashtagsRoute(UpstreamTagKeys, UpstreamRawLimits, Responses)
  \/ UsersRoute(UpstreamUserKeys, UpstreamRawLimits, UserResponses, Responses)

SpecUpstream == Init /\ [][NextUpstream]_vars

\* both backends, the upstream sending numbers of either sign
SignedItems == {ITEM_TEST, ITEM_BARE, ITEM_NEGATIVE}
SignedPayloads ==
  {Payload(Present(d), i) :
     d \in SeqsUpTo(SignedItems, MaxItems),
     i \in {Absent, Present([users |-> Present(<<USER_TEST>>)])}}
SignedResponses ==
  {Response(FALSE, 200, Payload(Present(<<item>>), Absent)) : item \in SignedItems}

NextCounts ==
  \/ NewMock
  \/ NewApi
  \/ MockHashtag({RUST}, OneOrFew)
  \/ MockUser({UNKNOWNUSER, <<"@">> \o TWITTER}, OneOrFew)
  \/ ApiHashtag({RUST}, OneOrFew, SignedResponses)
  \/ ApiUser({<<"@">> \o TWITTER}, OneOrFew, FewUserResponses, SignedResponses)
  \/ ParseResponse(SignedPayloads)

SpecCounts == Init /\ [][NextCounts]_vars

\* requests repeated by a client that keeps one of the responses
RepeatTagKeys == {RUST, PYTHON}
RepeatUserKeys == {<<"@">> \o TWITTER}
RepeatRawLimits == {<<"2">>, <<"0">>}

NextRepeat ==
  \/ SetEnv
  \/ HashtagsRoute(RepeatTagKeys, RepeatRawLimits, FewResponses)
  \/ UsersRoute(RepeatUserKeys, RepeatRawLimits, FewUserResponses, FewResponses)
  \/ ClientKeeps
  \/ ClientSeesAnother

SpecRepeat == Init /\ [][NextRepeat]_vars

----------------------------------------------------------------------------
(* Properties                                                               *)

FetchOps == {"get_tweets_by_hashtag", "get_user_tweets"}

Routes == {"GET /hashtags/{hashtag}", "GET /users/{username}"}

\* the last call was a fetch operation on a backend of class cls
Fetched(cls) == last.op \in FetchOps /\ last.backend = cls

\* C1: on the mock backend, get_tweets_by_hashtag and get_user_tweets with
\* a non-empty key and a limit n in 1 .. 100 return exactly n posts,
\* in whatever state earlier calls left the generator.
C1_MockReturnsExactlyLimitPosts ==
  (Fetched("TwitterMockService") /\ last.key # EMPTY /\ last.limit \in 1 .. 100)
    => (last.kind = "ok" /\ Len(last.posts) = last.limit)

\* a timeline of 100 posts, produced from a generator state that earlier
\* calls had moved away from the seed
C1_HundredPostsReturned ==
  /\ Fetched("TwitterMockService")
  /\ last.op = "get_user_tweets"
  /\ last.limit = 100
  /\ Len(last.posts) = 100
  /\ rng # AdvanceBy(Seed(42), 401)

\* C2: every post that the mock get_tweets_by_hashtag returns for a
\* non-empty tag has "#" followed by the tag without its leading "#"s among
\* its hashtags when both are lower-cased, whichever sample text was drawn.
C2_MockPostsCarryTheTag ==
  (Fetched("TwitterMockService") /\ last.op = "get_tweets_by_hashtag"
     /\ last.key # EMPTY)
    => \A k \in DOMAIN last.posts :
         \E h \in DOMAIN last.posts[k].hashtags :
           Lower(last.posts[k].hashtags[h]) = <<"#">> \o Lower(LStrip(last.key, "#"))

\* two posts for "##Python" drawn from different sample texts, one of
\* which had the tag appended to it
C2_TagAddedToSomeText ==
  /\ Fetched("TwitterMockService")
  /\ last.op = "get_tweets_by_hashtag"
  /\ last.key = <<"#","#","P">> \o Tail(PYTHON)
  /\ \E j, k \in DOMAIN last.posts :
       /\ last.posts[j].text # last.posts[k].text
       /\ last.posts[j].text \in {SAMPLE_TEXTS[t] : t \in DOMAIN SAMPLE_TEXTS}
       /\ last.posts[k].text \notin {SAMPLE_TEXTS[t] : t \in DOMAIN SAMPLE_TEXTS}

\* C3: on both backends, get_tweets_by_hashtag("", n) and
\* get_user_tweets("", n) raise ValueError, return no post, and on the API
\* backend make no request.
C3_EmptyKeyIsRejected ==
  (last.op \in FetchOps /\ last.key = EMPTY)
    => (last.kind = "ValueError" /\ last.posts = <<>> /\ last.calls = <<>>)

\* the empty username was passed to the API backend
C3_EmptyKeyOnApiBackend ==
  /\ Fetched("TwitterAPIService")
  /\ last.op = "get_user_tweets"
  /\ last.key = EMPTY
  /\ last.kind = "ValueError"
  /\ mock

\* C4: on both backends and for both operations, a key that is empty once
\* its leading marker is removed ("#" for a tag, "@" for a handle) raises
\* ValueError, with no post and no request, for every limit in 1 .. 100.
C4_MarkerOnlyKeyIsRejected ==
  (/\ \/ last.op = "get_tweets_by_hashtag" /\ last.key = <<"#">>
      \/ last.op = "get_user_tweets" /\ last.key = <<"@">>
   /\ last.limit \in 1 .. 100)
    => (last.kind = "ValueError" /\ last.posts = <<>> /\ last.calls = <<>>)

\* C5: validate_limit returns the default for an absent limit_str, raises
\* ValueError for one that is no integer, or is below 1 or above 100, and
\* otherwise returns the integer ("1" and "100" pass, "0" and "200" fail).
C5_ValidateLimitContract ==
  last.op = "validate_limit"
    => /\ IF last.raw = None
          THEN last.kind = "ok" /\ last.value = Get(last.default, 30)
          ELSE IF ParseInt(last.raw) = Absent
               THEN last.kind = "ValueError"
          ELSE IF ParseInt(last.raw)[1] < 1 \/ ParseInt(last.raw)[1] > 100
               THEN last.kind = "ValueError"
          ELSE last.kind = "ok" /\ last.value = ParseInt(last.raw)[1]
       /\ last.raw = <<"1">> => (last.kind = "ok" /\ last.value = 1)
       /\ last.raw = <<"1","0","0">> => (last.kind = "ok" /\ last.value = 100)
       /\ last.raw \in {<<"0">>, <<"2","0","0">>, <<"a","b","c">>}
            => last.kind = "ValueError"

\* "100" was validated with a default other than 30
C5_UpperBoundAccepted ==
  /\ last.op = "validate_limit"
  /\ last.raw = <<"1","0","0">>
  /\ last.default = Present(500)
  /\ last.value = 100

\* C6: on both routes, a limit that is no integer or lies outside 1 .. 100
\* is answered with a 4xx status and no backend operation runs; a request
\* with no limit runs the backend operation with limit 30.
C6_RouteLimit ==
  last.op \in Routes
    => /\ (last.raw # None
           /\ (\/ ParseInt(last.raw) = Absent
               \/ ParseInt(last.raw)[1] < 1
               \/ ParseInt(last.raw)[1] > 100))
            => /\ last.status \in 400 .. 499
               /\ last.backend = ""
               /\ last.posts = <<>>
               /\ last.calls = <<>>
       /\ last.raw = None
            => /\ last.backend \in {"TwitterMockService", "TwitterAPIService"}
               /\ last.limit = 30
               /\ last.backend = "TwitterMockService" => Len(last.posts) = 30
               /\ \A c \in DOMAIN last.calls :
                    last.calls[c].endpoint # "/users/by/username"
                      => last.calls[c].max_results = 30

\* limit=101 was rejected while the environment selects the mock backend,
\* whose generator stayed where the request before left it
C6_LimitAboveMaximumRejected ==
  /\ last.op = "GET /users/{username}"
  /\ last.raw = <<"1","0","1">>
  /\ last.status = 422
  /\ ~Truthy(env)
  /\ rng # 0

\* C7: get_twitter_service returns a TwitterAPIService exactly when
\* TWITTER_BEARER_TOKEN is set to a non-empty value and a TwitterMockService
\* otherwise, whatever instances exist already.
C7_SelectorFollowsCredential ==
  last.op = "get_twitter_service"
    => /\ last.kind = "ok"
       /\ Truthy(last.token) => last.backend = "TwitterAPIService"
       /\ ~Truthy(last.token) => last.backend = "TwitterMockService"

\* the selector returned a mock service for the empty credential although
\* an API instance built earlier still exists
C7_MockSelectedAfterApi ==
  /\ last.op = "get_twitter_service"
  /\ last.token = EMPTY
  /\ last.backend = "TwitterMockService"
  /\ api = ENV_TOKEN

\* C8: TwitterAPIService() with no token passed and none in the
\* environment raises "Bearer Token is required" and builds no instance;
\* every instance holds a token, and the fetch operations never raise that
\* error, also on an instance that get_twitter_service built.
C8_MissingTokenFailsAtConstruction ==
  /\ [][(/\ last' # last
         /\ last'.op = "TwitterAPIService"
         /\ ~Truthy(last'.token)
         /\ ~Truthy(env))
          => (/\ last'.kind = "ValueError"
              /\ last'.msg = "Bearer Token is required"
              /\ last'.backend = ""
              /\ api' = api)]_vars
  /\ [](api # None => Truthy(api))
  /\ [](last.op \in FetchOps => last.msg # "Bearer Token is required")

\* a construction failed for lack of a token
C8_ConstructionFailed ==
  /\ last.op = "TwitterAPIService"
  /\ last.token = EMPTY
  /\ last.kind = "ValueError"
  /\ last.msg = "Bearer Token is required"
  /\ api = None

\* the positions of text where a whitespace-separated token that starts
\* with "#" begins
HashStarts(text) ==
  {i \in DOMAIN text : text[i] = "#" /\ (i = 1 \/ text[i-1] \in WHITESPACE)}

\* the token of text that begins at position i
TokenAt(text, i) ==
  SubSeq(text, i,
         CHOOSE j \in i .. Len(text) :
           /\ \A k \in i .. j : text[k] \notin WHITESPACE
           /\ j = Len(text) \/ text[j+1] \in WHITESPACE)

\* hashtags lists the tokens of text that start with "#", in text order
IsHashTokensOf(hashtags, text) ==
  /\ Len(hashtags) = Cardinality(HashStarts(text))
  /\ \A i \in HashStarts(text) :
       hashtags[Cardinality({j \in HashStarts(text) : j <= i})] = TokenAt(text, i)

\* the users of the payload's expansion whose id is the item's author_id
Authors(data, item) ==
  IF Has(data.includes) /\ Has(data.includes[1].users) /\ Has(item.author_id)
  THEN {u \in DOMAIN data.includes[1].users[1] :
          data.includes[1].users[1][u].id = item.author_id[1]}
  ELSE {}

\* the metric of an item, 0 where the item has none
Metric(item, name) ==
  IF Has(item.public_metrics) THEN Get(item.public_metrics[1][name], 0) ELSE 0

\* post is the normalisation of item
IsPostOf(post, data, item) ==
  /\ post.text = Get(item.text, <<>>)
  /\ post.replies = Metric(item, "reply_count")
  /\ post.retweets = Metric(item, "retweet_count")
  /\ post.likes = Metric(item, "like_count")
  /\ IsHashTokensOf(post.hashtags, post.text)
  /\ IF Authors(data, item) = {}
     THEN /\ post.account.fullname = <<"U","n","k","n","o","w","n">>
          /\ post.account.href = <<"/","u","n","k","n","o","w","n">>
     ELSE \E u \in Authors(data, item) :
            /\ \A v \in Authors(data, item) : v <= u
            /\ post.account.fullname
                 = Get(data.includes[1].users[1][u].name, <<"U","n","k","n","o","w","n">>)
            /\ post.account.href
                 = <<"/">> \o Get(data.includes[1].users[1][u].username,
                                  <<"u","n","k","n","o","w","n">>)

\* C9: _parse_tweets_response returns one post per item of the data array,
\* in the same order, each with the item's text, its reply, retweet and
\* like counts (0 where absent), the tokens of the text that start with "#"
\* as hashtags, and the account of the expansion user that has the item's
\* author_id ("Unknown" and "/unknown" where there is none).
C9_OnePostPerItem ==
  (last.op = "_parse_tweets_response" /\ Has(last.resp.json.data))
    => /\ last.kind = "ok"
       /\ Len(last.posts) = Len(last.resp.json.data[1])
       /\ \A k \in DOMAIN last.posts :
            IsPostOf(last.posts[k], last.resp.json, last.resp.json.data[1][k])

\* what holds of _parse_tweets_response in place of C9: a call that returns
\* has built its posts as C9 says, and a call raises only where some
\* author_id is no integer literal
PostsOfReturningCalls ==
  (last.op = "_parse_tweets_response" /\ Has(last.resp.json.data))
    => /\ last.kind = "ok"
          => /\ Len(last.posts) = Len(last.resp.json.data[1])
             /\ \A k \in DOMAIN last.posts :
                  IsPostOf(last.posts[k], last.resp.json, last.resp.json.data[1][k])
       /\ last.kind # "ok"
          => \E k \in DOMAIN last.resp.json.data[1] :
               /\ Has(last.resp.json.data[1][k].author_id)
               /\ ~AllDigits(last.resp.json.data[1][k].author_id[1])

\* two different items were normalised, the first by a user whose id
\* occurs twice in the expansion, the second with no user in it
TwoItemsNormalised ==
  /\ last.op = "_parse_tweets_response"
  /\ last.kind = "ok"
  /\ Len(last.posts) = 2
  /\ last.resp.json.data = Present(<<ITEM_TEST, ITEM_PARTIAL>>)
  /\ last.resp.json.includes = Present([users |-> Present(<<USER_TEST, USER_RENAMED>>)])
  /\ last.posts[1].account.fullname = <<"O","l","d"," ","N","a","m","e">>
  /\ last.posts[2].account.fullname = <<"U","n","k","n","o","w","n">>
  /\ last.posts[2].hashtags = << <<"#","A","I">>, <<"#","m","l">>, <<"#","A","I">> >>

\* C10: _parse_tweets_response returns the empty list, raising nothing,
\* for every payload with no data key; so get_tweets_by_hashtag and
\* get_user_tweets on the API backend return the empty list when the
\* response with the posts is a success whose payload has no data key.
C10_NoDataGivesNoPosts ==
  /\ (last.op = "_parse_tweets_response" /\ ~Has(last.resp.json.data))
       => (last.kind = "ok" /\ last.posts = <<>>)
  /\ (/\ Fetched("TwitterAPIService")
      /\ Len(last.calls) = (IF last.op = "get_user_tweets" THEN 2 ELSE 1)
      /\ ~last.resp.exc
      /\ last.resp.status_code \in 200 .. 299
      /\ ~Has(last.resp.json.data))
       => (last.kind = "ok" /\ last.posts = <<>>)

\* a timeline response with an expansion and no data key was answered
\* with the empty list
C10_TimelineWithoutData ==
  /\ Fetched("TwitterAPIService")
  /\ last.op = "get_user_tweets"
  /\ Len(last.calls) = 2
  /\ last.resp.status_code = 200
  /\ ~Has(last.resp.json.data)
  /\ Has(last.resp.json.includes)
  /\ last.kind = "ok"
  /\ last.posts = <<>>

\* C11: every post that get_user_tweets returns on the API backend has the
\* account of the user that the lookup request resolved: its name, its
\* username and its id, whatever author information the timeline items
\* carry themselves.
C11_TimelinePostsCarryResolvedUser ==
  (/\ Fetched("TwitterAPIService")
   /\ last.op = "get_user_tweets"
   /\ LStrip(last.key, "@") # EMPTY
   /\ last.limit \in 1 .. 100
   /\ last.kind = "ok")
    => \A k \in DOMAIN last.posts :
         /\ Present(last.posts[k].account.fullname) = last.uresp.json.data[1].name
         /\ Present(Tail(last.posts[k].account.href)) = last.uresp.json.data[1].username
         /\ Present(last.posts[k].account.id) = ParseInt(last.uresp.json.data[1].id)

\* the response met by the last request of the last call: the lookup's where
\* get_user_tweets stopped after one request, else the search's or timeline's
LastResponse ==
  IF last.op = "get_user_tweets" /\ Len(last.calls) = 1 THEN last.uresp ELSE last.resp

\* C12: when the search, the user lookup or the timeline request meets a
\* 401, a 403, a 429, another status of 400 or above, or a network
\* exception, the operation raises RuntimeError with the message
\* "Authentication failed", "Access forbidden", "Rate limit exceeded",
\* "API request failed" and "API request failed" respectively (four
\* outcomes that differ pairwise), and returns no post.
C12_UpstreamErrorsSurface ==
  (/\ Fetched("TwitterAPIService")
   /\ last.calls # <<>>
   /\ (LastResponse.exc \/ LastResponse.status_code >= 400))
    => /\ last.kind = "RuntimeError"
       /\ last.posts = <<>>
       /\ last.msg = (IF LastResponse.exc THEN "API request failed"
                      ELSE IF LastResponse.status_code = 401 THEN "Authentication failed"
                      ELSE IF LastResponse.status_code = 403 THEN "Access forbidden"
                      ELSE IF LastResponse.status_code = 429 THEN "Rate limit exceeded"
                      ELSE "API request failed")

\* the timeline request of get_user_tweets met a 403 after the lookup had
\* resolved a user
C12_TimelineForbidden ==
  /\ Fetched("TwitterAPIService")
  /\ last.op = "get_user_tweets"
  /\ Len(last.calls) = 2
  /\ Has(last.uresp.json.data)
  /\ last.resp.status_code = 403
  /\ last.kind = "RuntimeError"
  /\ last.msg = "Access forbidden"
  /\ last.posts = <<>>

\* the created_at of an item as _parse_tweets_response reads it ('' where
\* the item has none)
RawDate(item) == Get(item.created_at, <<>>)

\* datetime.fromisoformat rejects the item's created_at
Unparseable(item) == FromIsoFormat(ReplaceZ(RawDate(item))) = Absent

\* C13: when some item of a payload has a created_at that is no ISO-8601
\* value (also an empty or a missing one), _parse_tweets_response does not
\* raise: it returns one post per item, each normalised as usual, and the
\* date of every post whose item has such a created_at is that raw value.
C13_BadTimestampPassesThrough ==
  (/\ last.op = "_parse_tweets_response"
   /\ Has(last.resp.json.data)
   /\ \E k \in DOMAIN last.resp.json.data[1] : Unparseable(last.resp.json.data[1][k]))
    => /\ last.kind = "ok"
       /\ Len(last.posts) = Len(last.resp.json.data[1])
       /\ \A k \in DOMAIN last.posts :
            /\ IsPostOf(last.posts[k], last.resp.json, last.resp.json.data[1][k])
            /\ Unparseable(last.resp.json.data[1][k])
                 => last.posts[k].date = RawDate(last.resp.json.data[1][k])

\* what holds of the dates in place of C13: a call that returns has passed
\* every unparseable created_at through and reformatted the others, and a
\* call raises only where some author_id is no integer literal
DatesOfReturningCalls ==
  (last.op = "_parse_tweets_response" /\ Has(last.resp.json.data))
    => /\ last.kind = "ok"
          => /\ Len(last.posts) = Len(last.resp.json.data[1])
             /\ \A k \in DOMAIN last.posts :
                  IF Unparseable(last.resp.json.data[1][k])
                  THEN last.posts[k].date = RawDate(last.resp.json.data[1][k])
                  ELSE last.posts[k].date # RawDate(last.resp.json.data[1][k])
       /\ last.kind # "ok"
          => \E k \in DOMAIN last.resp.json.data[1] :
               /\ Has(last.resp.json.data[1][k].author_id)
               /\ ~AllDigits(last.resp.json.data[1][k].author_id[1])

\* the sample accounts whose href without its "/" is handle, letter case
\* aside
PoolEntries(handle) ==
  {SAMPLE_ACCOUNTS[k] : k \in {j \in DOMAIN SAMPLE_ACCOUNTS :
                                 Lower(Tail(SAMPLE_ACCOUNTS[j].href)) = Lower(handle)}}

\* C14: the posts that the mock get_user_tweets returns all have the same
\* account. Where the username without its leading "@"s is the handle of a
\* sample account, letter case aside, it is that sample account ("twitter"
\* and "@twitter" give href "/Twitter"); otherwise its href is "/" followed
\* by that username, its fullname the username in title case and its id
\* lies in 1000000 .. 99999999.
C14_OneAccountPerTimeline ==
  (/\ Fetched("TwitterMockService")
   /\ last.op = "get_user_tweets"
   /\ last.key # EMPTY)
    => /\ last.kind = "ok"
       /\ \A j, k \in DOMAIN last.posts : last.posts[j].account = last.posts[k].account
       /\ \A k \in DOMAIN last.posts :
            IF PoolEntries(LStrip(last.key, "@")) # {}
            THEN last.posts[k].account \in PoolEntries(LStrip(last.key, "@"))
            ELSE /\ last.posts[k].account.href = <<"/">> \o LStrip(last.key, "@")
                 /\ last.posts[k].account.fullname = Title(LStrip(last.key, "@"))
                 /\ last.posts[k].account.id \in 1000000 .. 99999999
       /\ \A k \in DOMAIN last.posts :
            last.key \in {TWITTER, <<"@">> \o TWITTER}
              => last.posts[k].account.href = <<"/","T","w","i","t","t","e","r">>

\* two posts with different texts for "unknownuser123", both with the
\* account made up for the call
C14_UnknownUserTimeline ==
  /\ Fetched("TwitterMockService")
  /\ last.op = "get_user_tweets"
  /\ last.key = UNKNOWNUSER
  /\ Len(last.posts) = 2
  /\ last.posts[1].account.href = <<"/">> \o UNKNOWNUSER
  /\ last.posts[1].account.fullname = <<"U">> \o Tail(UNKNOWNUSER)
  /\ last.posts[2].account = last.posts[1].account
  /\ last.posts[1].text # last.posts[2].text

\* the marker of an operation's key: "#" for a hashtag, "@" for a username
Marker(op) == IF op = "get_tweets_by_hashtag" THEN "#" ELSE "@"

\* out is the outcome that the call l records
SameOutcome(out, l) == out.kind = l.kind /\ out.msg = l.msg /\ out.posts = l.posts

\* the call that this step makes would have ended in the same way, from
\* the same state and with the same responses, had its key been key
AgreesWithKey(key) ==
  IF last'.backend = "TwitterMockService"
  THEN IF last'.op = "get_tweets_by_hashtag"
       THEN /\ SameOutcome(MockTweetsByHashtag(key, last'.limit, rng, last'.now), last')
            /\ MockTweetsByHashtag(key, last'.limit, rng, last'.now).rng = rng'
       ELSE /\ SameOutcome(MockUserTweets(key, last'.limit, rng, last'.now), last')
            /\ MockUserTweets(key, last'.limit, rng, last'.now).rng = rng'
  ELSE IF last'.op = "get_tweets_by_hashtag"
       THEN /\ SameOutcome(ApiTweetsByHashtag(key, last'.limit, last'.resp), last')
            /\ ApiTweetsByHashtag(key, last'.limit, last'.resp).calls = last'.calls
       ELSE /\ SameOutcome(ApiUserTweets(key, last'.limit, last'.uresp, last'.resp), last')
            /\ ApiUserTweets(key, last'.limit, last'.uresp, last'.resp).calls = last'.calls

\* C15: removing the leading marker twice gives what removing it once
\* gives, and on both backends a call of get_tweets_by_hashtag or
\* get_user_tweets ends as the call with the marker put in front of its
\* key would have ended from the same state: same posts or error, same
\* requests, same generator state afterwards, for every limit in 1 .. 100.
C15_MarkerFormsAgree ==
  [][(last'.op \in FetchOps /\ last'.limit \in 1 .. 100)
       => /\ LStrip(LStrip(last'.key, Marker(last'.op)), Marker(last'.op))
               = LStrip(last'.key, Marker(last'.op))
          /\ LStrip(<<Marker(last'.op)>> \o last'.key, Marker(last'.op))
               = LStrip(last'.key, Marker(last'.op))
          /\ AgreesWithKey(<<Marker(last'.op)>> \o last'.key)]_vars

\* what holds of the code in place of C15: the same for every key that is
\* not the empty string
NonEmptyMarkerFormsAgree ==
  [][(last'.op \in FetchOps /\ last'.key # EMPTY)
       => /\ LStrip(LStrip(last'.key, Marker(last'.op)), Marker(last'.op))
               = LStrip(last'.key, Marker(last'.op))
          /\ LStrip(<<Marker(last'.op)>> \o last'.key, Marker(last'.op))
               = LStrip(last'.key, Marker(last'.op))
          /\ AgreesWithKey(<<Marker(last'.op)>> \o last'.key)]_vars

\* the number of characters ch that key starts with
LeadingMarkers(key, ch) ==
  CHOOSE n \in 0 .. Len(key) :
    /\ \A i \in 1 .. n : key[i] = ch
    /\ n = Len(key) \/ key[n + 1] # ch

\* key without its first n characters
Without(key, n) == SubSeq(key, n + 1, Len(key))

\* the calls on a backend show that k was the key they worked with: the
\* API backend sent it in its first request, the mock backend tagged every
\* post with it or gave every post the account of that handle
WorkedWithKey(k) ==
  /\ (last.backend = "TwitterAPIService" /\ last.calls # <<>>)
       => last.calls[1].arg
            = (IF last.op = "get_tweets_by_hashtag" THEN <<"#">> \o k ELSE k)
  /\ (last.backend = "TwitterMockService" /\ last.op = "get_tweets_by_hashtag")
       => \A p \in DOMAIN last.posts :
            \E h \in DOMAIN last.posts[p].hashtags :
              Lower(last.posts[p].hashtags[h]) = <<"#">> \o Lower(k)
  /\ (last.backend = "TwitterMockService" /\ last.op = "get_user_tweets")
       => \A p \in DOMAIN last.posts :
            Lower(Tail(last.posts[p].account.href)) = Lower(k)

\* C16 as stated: of a key that starts with two or more markers, both
\* backends remove the first marker only and work with the rest.
C16_OnlyFirstMarkerRemoved ==
  (last.op \in FetchOps /\ LeadingMarkers(last.key, Marker(last.op)) >= 2)
    => WorkedWithKey(Without(last.key, 1))

\* C16: both backends remove every leading marker of a key and work with
\* what follows them: "##Python" is searched as "#Python" and tagged
\* "#python", "@@ThePSF" is the sample account "/ThePSF".
C16_EveryLeadingMarkerRemoved ==
  (last.op \in FetchOps /\ last.key # EMPTY)
    => WorkedWithKey(Without(last.key, LeadingMarkers(last.key, Marker(last.op))))

\* the API backend searched "##Python" as "#Python"
C16_DoubleMarkerSearched ==
  /\ Fetched("TwitterAPIService")
  /\ last.op = "get_tweets_by_hashtag"
  /\ last.key = <<"#","#","P">> \o Tail(PYTHON)
  /\ last.calls # <<>>
  /\ last.calls[1].arg = <<"#","P">> \o Tail(PYTHON)

\* the last call was a fetch operation with a key that is valid and a
\* limit outside 1 .. 100
OutOfRangeLimit ==
  /\ last.op \in FetchOps
  /\ LStrip(last.key, Marker(last.op)) # EMPTY
  /\ last.limit \notin MIN_TWEET_LIMIT .. MAX_TWEET_LIMIT

\* C17 as stated: get_tweets_by_hashtag and get_user_tweets, called on a
\* backend with a limit below 1 or above 100, raise ValueError and return
\* nothing.
C17_OutOfRangeLimitRejected ==
  OutOfRangeLimit => (last.kind = "ValueError" /\ last.posts = <<>>)

\* C17: neither backend checks the limit. With a limit below 1 or above 100
\* the mock backend returns limit posts (none for a limit below 1), and the
\* API backend sends its requests, asking for min(limit, 100) posts.
C17_LimitIsNotChecked ==
  OutOfRangeLimit
    => /\ last.backend = "TwitterMockService"
            => /\ last.kind = "ok"
               /\ Len(last.posts) = (IF last.limit < 0 THEN 0 ELSE last.limit)
       /\ last.backend = "TwitterAPIService"
            => /\ last.calls # <<>>
               /\ \A c \in DOMAIN last.calls :
                    last.calls[c].endpoint # "/users/by/username"
                      => last.calls[c].max_results
                           = (IF last.limit < 100 THEN last.limit ELSE 100)

\* the mock backend returned 101 posts
C17_HundredAndOnePosts ==
  /\ Fetched("TwitterMockService")
  /\ last.op = "get_tweets_by_hashtag"
  /\ last.limit = 101
  /\ last.kind = "ok"
  /\ Len(last.posts) = 101

\* the last call was a request that a backend served
Served(l) == l.op \in Routes /\ l.backend # ""

LookupSucceeded == ~last.uresp.exc /\ last.uresp.status_code \in 200 .. 299

\* C19: on the API backend, get_tweets_by_hashtag with a non-empty hashtag
\* makes exactly one request, the search. get_user_tweets with a non-empty
\* username makes the lookup request and at most one more, the timeline
\* request for the id of the user found, and that one only after the lookup
\* succeeded and returned a user; where the lookup succeeds without a user
\* the call raises "User not found", having made the lookup request only.
C19_UpstreamCallSequence ==
  (Fetched("TwitterAPIService") /\ last.key # EMPTY)
    => IF last.op = "get_tweets_by_hashtag"
       THEN /\ Len(last.calls) = 1
            /\ last.calls[1].endpoint = "/tweets/search/recent"
       ELSE /\ Len(last.calls) \in {1, 2}
            /\ last.calls[1].endpoint = "/users/by/username"
            /\ Len(last.calls) = 2
                 <=> (LookupSucceeded /\ Has(last.uresp.json.data))
            /\ Len(last.calls) = 2
                 => /\ last.calls[2].endpoint = "/users/:id/tweets"
                    /\ last.calls[2].arg = last.uresp.json.data[1].id
            /\ (LookupSucceeded /\ ~Has(last.uresp.json.data))
                 => /\ last.kind = "RuntimeError"
                    /\ last.msg = "User not found"
                    /\ last.posts = <<>>

\* the lookup succeeded without a user and no timeline request followed
C19_UserNotFound ==
  /\ Fetched("TwitterAPIService")
  /\ last.op = "get_user_tweets"
  /\ last.uresp.status_code = 200
  /\ ~Has(last.uresp.json.data)
  /\ last.msg = "User not found"
  /\ Len(last.calls) = 1

\* C20: constructing another TwitterMockService while one exists leaves
\* what the existing instance draws on its next call unchanged: the
\* accounts, texts and counts of the post that get_tweets_by_hashtag("rust",
\* 1) returns are the same before and after the construction.
C20_GeneratorPrivateToInstance ==
  [][(mock /\ last'.op = "TwitterMockService")
       => \A now \in Clock :
            MockTweetsByHashtag(RUST, 1, rng', now).posts
              = MockTweetsByHashtag(RUST, 1, rng, now).posts]_vars

\* the handler of a request has drawn and has draws left to make
MidDraws(slot) ==
  /\ slot.phase = "running"
  /\ Len(slot.draws) > 0
  /\ Len(slot.draws) < DrawsNeeded(OperationOf(slot.route), slot.key, slot.limit)

\* C21: while the mock operation of one request is between its first and
\* its last draw, the operation of no other request draws from the
\* generator, however many requests the server has accepted.
C21_DrawsAreSerialized ==
  [][\A r \in Requests :
       Len(inflight'[r].draws) = Len(inflight[r].draws) + 1
         => \A q \in Requests \ {r} : ~MidDraws(inflight[q])]_vars

\* one request is between two draws while another, accepted already,
\* waits for its handler to start
C21_RequestWaitsForHandler ==
  \E r, q \in Requests :
    /\ MidDraws(inflight[r])
    /\ inflight[r].route = "GET /hashtags/{hashtag}"
    /\ inflight[q].phase = "pending"
    /\ inflight[q].route = "GET /users/{username}"

\* the handlers followed statement by statement answer as the handlers
\* run in one piece do
HandlersAgreeWithRoutes ==
  (last.op \in Routes /\ last.backend = "TwitterMockService" /\ last.posts # <<>>)
    => \E out \in {IF last.op = "GET /hashtags/{hashtag}"
                   THEN MockTweetsByHashtag(last.key, last.limit, Seed(42), last.now)
                   ELSE MockUserTweets(last.key, last.limit, Seed(42), last.now)} :
         last.posts = [k \in DOMAIN out.posts |-> ToDict(out.posts[k])]

\* a key with something left once its leading markers are removed, and a
\* limit within the configured range
ValidRequest(l) ==
  /\ l.op \in Routes
  /\ LStrip(l.key, IF l.op = "GET /hashtags/{hashtag}" THEN "#" ELSE "@") # <<>>
  /\ l.limit \in MIN_TWEET_LIMIT .. MAX_TWEET_LIMIT

\* C22: a request with a valid key and a valid limit never ends in a
\* ValueError or a 4xx status, whatever the upstream answers and whatever
\* service the factory constructs.
C22_InvalidInputOnlyFromCaller ==
  ValidRequest(last) => last.kind # "ValueError" /\ last.status \notin 400 .. 499

\* what holds of the routes in place of C22: a valid request ends in a
\* ValueError only on the API backend, where the payload of a 200 response
\* has an item whose author_id is no integer literal
InvalidInputOnlyFromAuthorId ==
  (ValidRequest(last) /\ last.kind = "ValueError")
    => /\ last.backend = "TwitterAPIService"
       /\ last.status = 400
       /\ last.resp.status_code = 200
       /\ Has(last.resp.json.data)
       /\ \E k \in DOMAIN last.resp.json.data[1] :
            /\ Has(last.resp.json.data[1][k].author_id)
            /\ ParseInt(last.resp.json.data[1][k].author_id[1]) = Absent

\* a post whose counts and account id are natural numbers
NonNegative(post) ==
  /\ post.replies \in Nat
  /\ post.retweets \in Nat
  /\ post.likes \in Nat
  /\ post.account.id \in Nat

\* C23: every post that an operation of either backend returns has reply,
\* retweet and like counts that are integers >= 0 and an account whose id
\* is an integer >= 0, whatever the upstream payload holds.
C23_CountsAndIdsNonNegative ==
  (last.op \in FetchOps \cup {"_parse_tweets_response"})
    => \A k \in DOMAIN last.posts : NonNegative(last.posts[k])

\* what holds in place of C23: the posts of the mock backend have natural
\* counts and ids, and a post of the API backend has a number below zero
\* only where the item it was built from has it
NegativeOnlyFromUpstream ==
  (last.op \in FetchOps \cup {"_parse_tweets_response"})
    => \A k \in DOMAIN last.posts :
         ~NonNegative(last.posts[k])
           => /\ last.backend = "TwitterAPIService"
              /\ \/ last.posts[k].account.id
                      = ParseInt(Get(last.resp.json.data[1][k].author_id, <<"0">>))[1]
                    /\ last.posts[k].account.id < 0
                 \/ \E m \in {"reply_count", "retweet_count", "like_count"} :
                      Metric(last.resp.json.data[1][k], m) < 0

\* C24 as stated: every value that validate_limit returns lies within
\* 1 .. 100, for every limit_str and every default, the default returned
\* for an absent limit_str included.
C24_ReturnedLimitWithinBounds ==
  (last.op = "validate_limit" /\ last.kind = "ok")
    => last.value \in MIN_TWEET_LIMIT .. MAX_TWEET_LIMIT

\* C24: a value that validate_limit returns for a limit_str that is
\* present lies within 1 .. 100; for an absent limit_str the value is the
\* default as passed, which lies within 1 .. 100 if the caller omitted it
\* or passed a default within the bounds, and is returned unchecked
\* otherwise.
C24_ReturnedLimitWithinBoundsOrDefault ==
  (last.op = "validate_limit" /\ last.kind = "ok")
    => /\ last.raw # None => last.value \in MIN_TWEET_LIMIT .. MAX_TWEET_LIMIT
       /\ last.raw = None => last.value = Get(last.default, DEFAULT_TWEET_LIMIT)
       /\ (last.default = Absent
             \/ Get(last.default, 0) \in MIN_TWEET_LIMIT .. MAX_TWEET_LIMIT)
            => last.value \in MIN_TWEET_LIMIT .. MAX_TWEET_LIMIT

\* validate_limit returned a default above the maximum
C24_DefaultAboveMaximumReturned ==
  /\ last.op = "validate_limit"
  /\ last.kind = "ok"
  /\ last.raw = None
  /\ last.default = Present(500)
  /\ last.value = 500

\* a post without its date
Content(post) ==
  [account |-> post.account, text |-> post.text, replies |-> post.replies,
   retweets |-> post.retweets, likes |-> post.likes, hashtags |-> post.hashtags]

\* the mock backend answered the request of the last response
MockServed(l) == l.op \in Routes /\ l.backend = "TwitterMockService" /\ l.status = 200

\* C25: a response of the mock backend to a request with the route, key
\* and limit of a response that a client received from the mock backend
\* earlier has the same number of posts, and each post has the account,
\* text, counts and hashtags of the earlier one (the dates may differ),
\* whatever requests were served between the two.
C25_RepeatedRequestSameContent ==
  (kept # NothingKept /\ MockServed(last) /\ RequestOf(last) = RequestOf(kept.first))
    => /\ Len(last.posts) = Len(kept.first.posts)
       /\ \A k \in DOMAIN last.posts :
            Content(last.posts[k]) = Content(kept.first.posts[k])

\* a request was repeated at another time after a different request had
\* been served, and the two responses differ in their dates alone
C25_RepeatedAfterAnother ==
  /\ kept.between
  /\ MockServed(last)
  /\ RequestOf(last) = RequestOf(kept.first)
  /\ last.limit = 2
  /\ last.now # kept.first.now
  /\ last.posts # kept.first.posts

=============================================================================
